---- MODULE Spec2Model ----
(***************************************************************************)
(* Model of the RENEC extraction coordinators of                           *)
(* packages/renec-client/src/scripts:                                      *)
(*   extract_certifiers_batch.py       (edition "batch")                   *)
(*   extract_ec_details_playwright.py  (edition "pw")                      *)
(*   extract_ec_details_api.py         (edition "api")                     *)
(* One run of a script is: load the work-item codes, load the checkpoint   *)
(* file, compute remaining, extract item after item, save the checkpoint   *)
(* at a fixed cadence and once at the end, write the consolidated output.  *)
(* The process may be killed at any step and the script started again.     *)
(* Each script has a checkpoint file of its own, so a behaviour stays with *)
(* one edition.  The import guard of the Playwright edition (lines 18-24)  *)
(* has lost its except clause; its main and process_ec are modelled as    *)
(* they are written.  A run may also be stopped by a signal, or end in a   *)
(* save_checkpoint that raises.                                            *)
(*                                                                         *)
(* A second specification, BuildSpec, models build_master_registries.py:   *)
(* the normalizer, the two registry builders, the EC-ECE matrix and the    *)
(* statistics, applied to extraction records of a few names.  A third,     *)
(* NormSpec, applies normalize_name to a name and to its own result.       *)
(* StatusSpec adds check_extraction_status.py, run at any moment of the    *)
(* batch coordinator; PageSpec follows the pages process_ec opens and      *)
(* closes in the batch and in the Playwright edition; CommitteeSpec models *)
(* extract_committees_resume.py with its two files.                        *)
(***************************************************************************)
EXTENDS Integers, Sequences, FiniteSets, TLC

(***************************************************************************)
(* Bounds of the model.                                                    *)
(***************************************************************************)
\* number of work-item codes in ec_standards_api.json
NumCodes == 3
\* number of times the script is started
MaxRuns == 2
\* number of extraction records the registry builder loads
NumEcs == 2
\* number of names (certifiers and courses) in the records altogether
MaxRelations == 3
\* number of tokens a name given to normalize_name is made of
MaxTokens == 3

(***************************************************************************)
(* Program constants.  The three save cadences, the worker count and the   *)
(* length of the API start-up test are scaled down (20, 10, 50, 5 and 5 in *)
(* the source) so that a universe of NumCodes items crosses a cadence      *)
(* boundary, fills the worker pool and outlasts the start-up test.  The    *)
(* retry limits are those of the source.                                   *)
(***************************************************************************)
\* extract_certifiers_batch.py: BATCH_SAVE_SIZE = 20
BATCH_SAVE_SIZE == 2
\* extract_ec_details_playwright.py: BATCH_SIZE = 10
PW_BATCH_SIZE == 2
\* extract_ec_details_api.py: BATCH_SIZE = 50
API_BATCH_SIZE == 2
\* extract_ec_details_api.py: MAX_WORKERS = 5
MAX_WORKERS == 2
\* extract_certifiers_batch.py process_ec: "if retry < 2"
BATCH_RETRY_LIMIT == 2
\* extract_ec_details_playwright.py: MAX_RETRIES = 3
MAX_RETRIES == 3
\* extract_ec_details_api.py main: remaining[:5]
API_TEST_COUNT == 2

Editions == {"batch", "pw", "api"}

\* the codes; load_ec_codes returns them sorted and without duplicates
Codes == 1..NumCodes

(***************************************************************************)
(* Values.                                                                 *)
(***************************************************************************)
\* Python's None
None == [none |-> TRUE]

\* the checkpoint file does not exist
NoFile == [file |-> "missing"]
\* the checkpoint file was opened with mode "w" and the dump has not finished
Truncated == [file |-> "truncated"]

EmptyDict == [k \in {} |-> None]

\* what the page's EXTRACT_SCRIPT can return: nothing at all, a title alone,
\* certifiers alone
Payloads ==
    {[title |-> "", certifiers |-> << >>],
     [title |-> "T", certifiers |-> << >>],
     [title |-> "", certifiers |-> <<"X">>]}

\* an attempt that raised (timeout, element not found, navigation error)
Fail == [fail |-> TRUE]

\* what one attempt of process_ec can end in
Outcomes == {Fail} \cup Payloads

SeqToSet(s) == {s[k] : k \in 1..Len(s)}

IsCheckpoint(d) == d # NoFile /\ d # Truncated

VARIABLES
    edition,      \* which of the three scripts runs
    ec_file,      \* whether ec_standards_api.json exists
    run,          \* number of the current start of the script
    pc,           \* position of main
    disk,         \* CHECKPOINT_FILE
    output,       \* OUTPUT_FILE
    checkpoint,   \* the dict `checkpoint` of main
    remaining,    \* the list `remaining` of main
    i,            \* number of completions recorded by the loop of main
    batch_count,  \* `batch_count` of the Playwright edition
    retry,        \* `retry` of the running process_ec
    result,       \* what process_ec returned / the future's result
    queue,        \* api: submitted tasks no worker has started
    running,      \* api: codes whose process_ec runs in a worker thread
    finished,     \* api: completed futures not yet yielded by as_completed
    test_i,       \* api: index in the start-up test loop
    test_ok,      \* api: whether test_results is non-empty
    \* history variables
    loaded,       \* the checkpoint as load_checkpoint returned it in this run
    calls,        \* per code, the calls of process_ec made by main in this run
    completed,    \* codes recorded by this run, in order
    attemptLog,   \* outcomes of the attempts of the running process_ec
    saveStart,    \* codes completed in this run when the last save started
    diskRun,      \* the run that wrote the checkpoint file
    prev,         \* how the previous run of the batch coordinator ended
    save_error    \* whether a save_checkpoint of this run raised, with the
                  \* calls of process_ec and the checkpoint at that moment

\* build_master_registries.py
VARIABLES
    bpc,            \* position of the registry builder's main
    ec_data,        \* the extraction records main loaded
    ece_registry,   \* what build_ece_registry returned
    ccap_registry,  \* what build_ccap_registry returned
    matrix,         \* what build_ec_ece_matrix returned
    stats           \* what generate_stats returned

bvars == <<bpc, ec_data, ece_registry, ccap_registry, matrix, stats>>

\* the registry builder is not run
BuilderOff ==
    /\ bpc = "off"
    /\ ec_data = << >>
    /\ ece_registry = << >>
    /\ ccap_registry = << >>
    /\ matrix = << >>
    /\ stats = << >>

\* normalize_name called on a name, and again on what it returned
VARIABLES
    npc,            \* how many times normalize_name has been applied
    raw_name,       \* the name it is first called on
    n_once,         \* normalize_name(raw_name)
    n_twice         \* normalize_name(n_once)

nvars == <<npc, raw_name, n_once, n_twice>>

\* normalize_name is not called on its own
NormalizerOff ==
    /\ npc = "off"
    /\ raw_name = << >>
    /\ n_once = << >>
    /\ n_twice = << >>

\* check_extraction_status.py
VARIABLES
    status          \* what the last run of the status check saw and did

stvars == <<status>>

\* the status check has not been run
NoStatus ==
    [report |-> "none", built |-> FALSE, total_ecs |-> 0, processed |-> 0,
     running |-> FALSE]

\* extract_committees_resume.py
VARIABLES
    kpc,              \* position of main
    kruns,            \* number of the current start of the script
    committees,       \* the list `committees` of main: the ids it holds
    scan_id,          \* `id` of the loop of main
    committees_file,  \* OUTPUT_FILE: the ids of the committees in it
    progress_file,    \* PROGRESS_FILE: its last_id
    final_save        \* whether the running save_progress is the final one

kvars == <<kpc, kruns, committees, scan_id, committees_file, progress_file,
           final_save>>

\* the committee extraction is not run
CommitteesOff ==
    /\ kpc = "off"
    /\ kruns = 0
    /\ committees = << >>
    /\ scan_id = 0
    /\ committees_file = NoFile
    /\ progress_file = NoFile
    /\ final_save = FALSE

\* the pages process_ec works with (batch and Playwright edition)
VARIABLES
    page_pc,        \* position of main and of the running process_ec
    page_edition,   \* "batch" or "pw"
    page_item,      \* index in remaining of the work item being extracted
    frames,         \* the page of each active call of process_ec, outermost
                    \* first
    open_pages,     \* the pages that are open
    pages_made,     \* how many pages new_page has created
    page_users      \* per page, the work items extracted in it

pgvars == <<page_pc, page_edition, page_item, frames, open_pages, pages_made,
            page_users>>

\* no page is looked at
PagesOff ==
    /\ page_pc = "off"
    /\ page_edition = "batch"
    /\ page_item = 0
    /\ frames = << >>
    /\ open_pages = {}
    /\ pages_made = 0
    /\ page_users = << >>

\* the variables of the scripts around the coordinators
xvars == <<stvars, kvars, pgvars>>

OthersOff ==
    /\ status = NoStatus
    /\ CommitteesOff
    /\ PagesOff

\* the variables of the coordinators
cvars == <<edition, ec_file, run, pc, disk, output, checkpoint, remaining, i,
           batch_count, retry, result, queue, running, finished, test_i,
           test_ok, loaded, calls, completed, attemptLog, saveStart, diskRun,
           prev, save_error>>

vars == <<cvars, bvars, nvars, xvars>>

(***************************************************************************)
(* Pure helpers.                                                           *)
(***************************************************************************)
\* load_ec_codes: the sorted list of the distinct codes
ec_codes == [k \in 1..NumCodes |-> k]

\* datetime.now().isoformat(): some time stamp
Now == "now"

\* {"processed": [], "failed": [], "data": {}}; last_updated is absent
\* (batch, api) or None (pw)
EmptyCheckpoint ==
    [processed |-> << >>, failed |-> << >>, data |-> EmptyDict,
     last_updated |-> "None"]

\* load_checkpoint: the file's content, or the empty checkpoint when the
\* file does not exist (a truncated file makes json.load raise: see Load)
load_checkpoint(d) == IF d = NoFile THEN EmptyCheckpoint ELSE d

\* RemainingOf without the filter: every code is extracted again
MutRemainingAll(codes, cp) == codes

\* RemainingOf filtering the failed list too
MutRemainingSkipFailed(codes, cp) ==
    LET seen == SeqToSet(cp.processed) \cup SeqToSet(cp.failed)
        keep(c) == c \notin seen
    IN  SelectSeq(codes, keep)

\* remaining = [c for c in ec_codes if c not in processed]
RemainingOf(codes, cp) ==
    LET processed == SeqToSet(cp.processed)
        keep(c) == c \notin processed
    IN  SelectSeq(codes, keep)

\* DictSet building the dict anew: the other keys are lost
MutDictSetAlone(d, k, v) == [x \in {k} |-> v]

\* d[k] = v of a Python dict
DictSet(d, k, v) ==
    [x \in DOMAIN d \cup {k} |-> IF x = k THEN v ELSE d[x]]

\* RetryLimit with the batch test written `retry <= 2`
MutRetryLimit(ed) ==
    IF ed = "batch" THEN BATCH_RETRY_LIMIT + 1 ELSE MAX_RETRIES

\* the `retry < limit` test of process_ec
RetryLimit(ed) == IF ed = "batch" THEN BATCH_RETRY_LIMIT ELSE MAX_RETRIES

\* the record process_ec returns for a scraped payload
DataRecord(code, o) ==
    [ec_code |-> code, title |-> o.title, certifiers |-> o.certifiers]

\* the record the API edition's process_ec returns
ApiRecord(code) == [ec_code |-> code, source |-> "api", data |-> "D"]

\* the test main applies to what process_ec returned:
\*   batch: data and (data.get("certifiers") or data.get("title"))
\*   pw:    data        (a dict with keys is truthy)
\*   api:   result
IsSuccess(ed, res) ==
    /\ res # None
    /\ ed = "batch" => (res.certifiers # << >> \/ res.title # "")

\* RecordResult without processed.append: the record is stored alone
MutRecordDataOnly(ed, cp, code, res) ==
    IF IsSuccess(ed, res)
    THEN [cp EXCEPT !.data = DictSet(@, code, res)]
    ELSE [cp EXCEPT !.failed = Append(@, code)]

\* RecordResult without the else branch: a failure is not recorded
MutRecordDropFailure(ed, cp, code, res) ==
    IF IsSuccess(ed, res)
    THEN [cp EXCEPT !.data = DictSet(@, code, res),
                    !.processed = Append(@, code)]
    ELSE cp

\* the success and the failure branch of main's loop body
RecordResult(ed, cp, code, res) ==
    IF IsSuccess(ed, res)
    THEN [cp EXCEPT !.data = DictSet(@, code, res),
                    !.processed = Append(@, code)]
    ELSE [cp EXCEPT !.failed = Append(@, code)]

\* ShouldSave with the cadence off by one
MutShouldSaveLate(ed, n, bc) ==
    CASE ed = "batch" -> n % (BATCH_SAVE_SIZE + 1) = 0
      [] ed = "pw"    -> bc >= PW_BATCH_SIZE + 1
      [] ed = "api"   -> n % (API_BATCH_SIZE + 1) = 0

\* whether the loop body saves the checkpoint after recording completion n
\* (n = i + 1); the Playwright edition counts with batch_count instead
ShouldSave(ed, n, bc) ==
    CASE ed = "batch" -> n % BATCH_SAVE_SIZE = 0
      [] ed = "pw"    -> bc >= PW_BATCH_SIZE
      [] ed = "api"   -> n % API_BATCH_SIZE = 0

\* where main continues after completion n was recorded (and saved)
AfterItem(ed, n, rem) ==
    IF n < Len(rem) THEN (IF ed = "api" THEN "pool" ELSE "extract")
    ELSE "fsave"

\* save_final / save_final_output / the dump at the end of the API main
FinalOutput(cp) ==
    [total |-> Cardinality(DOMAIN cp.data),
     failed_ecs |-> cp.failed,
     ec_details |-> cp.data]

Min(a, b) == IF a < b THEN a ELSE b

ZeroCalls == [c \in Codes |-> 0]

NoPrev == [crashed |-> FALSE, completed |-> {}, remaining |-> {}]

\* no save_checkpoint of this run has raised
NoSaveError ==
    [raised |-> FALSE, calls |-> ZeroCalls, checkpoint |-> EmptyCheckpoint]

\* history: how a run ended, what it had completed and what it had to do
\* (kept for the batch coordinator, whose resumption is examined)
EndOfRun(crashed) ==
    IF edition = "batch"
    THEN [crashed |-> crashed,
          completed |-> SeqToSet(completed),
          remaining |-> SeqToSet(remaining)]
    ELSE NoPrev

(***************************************************************************)
(* Initial state: the script is started for the first time, no checkpoint  *)
(* and no output exist.                                                    *)
(***************************************************************************)
Init ==
    /\ edition \in Editions
    /\ ec_file \in BOOLEAN
    /\ run = 1
    /\ pc = "start"
    /\ disk = NoFile
    /\ output = NoFile
    /\ checkpoint = EmptyCheckpoint
    /\ remaining = << >>
    /\ i = 0
    /\ batch_count = 0
    /\ retry = 0
    /\ result = None
    /\ queue = << >>
    /\ running = {}
    /\ finished = << >>
    /\ test_i = 0
    /\ test_ok = FALSE
    /\ loaded = EmptyCheckpoint
    /\ calls = ZeroCalls
    /\ completed = << >>
    /\ attemptLog = << >>
    /\ saveStart = {}
    /\ diskRun = 0
    /\ prev = NoPrev
    /\ save_error = NoSaveError
    /\ BuilderOff
    /\ NormalizerOff
    /\ OthersOff

(***************************************************************************)
(* main, up to the loop: load the codes and the checkpoint, compute        *)
(* remaining, and finish at once when nothing remains.                     *)
(***************************************************************************)
Load ==
    /\ pc = "start"
    /\ UNCHANGED <<bvars, nvars, xvars, save_error, edition, ec_file, run, disk, i, batch_count, retry,
                   result, queue, running, finished, test_i, test_ok, calls,
                   completed, attemptLog, saveStart, diskRun, prev>>
    /\ IF ~ec_file /\ edition # "api"
       THEN \* open() raises FileNotFoundError (batch), exit(1) (pw)
            /\ pc' = "error"
            /\ UNCHANGED <<checkpoint, remaining, loaded, output>>
       ELSE IF disk = Truncated
       THEN \* json.load raises JSONDecodeError
            /\ pc' = "error"
            /\ UNCHANGED <<checkpoint, remaining, loaded, output>>
       ELSE LET codes == IF ec_file THEN ec_codes ELSE << >>
                cp == load_checkpoint(disk)
                rem == RemainingOf(codes, cp)
            IN  /\ checkpoint' = cp
                /\ loaded' = cp
                /\ remaining' = rem
                /\ IF rem = << >>
                   THEN /\ pc' = "done"
                        /\ output' = IF edition = "api" THEN output
                                     ELSE FinalOutput(cp)
                   ELSE /\ pc' = IF edition = "api" THEN "test" ELSE "extract"
                        /\ UNCHANGED output

(***************************************************************************)
(* process_ec of the batch and the Playwright edition: one attempt.  A     *)
(* failed attempt calls process_ec again with retry + 1 while retry is     *)
(* below the limit, and returns None otherwise.                            *)
(***************************************************************************)
Attempt ==
    /\ pc = "extract"
    /\ edition \in {"batch", "pw"}
    /\ \E o \in Outcomes :
        LET code == remaining[i + 1]
        IN  /\ attemptLog' = Append(attemptLog, o)
            /\ calls' = IF attemptLog = << >>
                        THEN [calls EXCEPT ![code] = @ + 1] ELSE calls
            /\ IF o = Fail
               THEN IF retry < RetryLimit(edition)
                    THEN /\ retry' = retry + 1
                         /\ UNCHANGED <<pc, result>>
                    ELSE /\ result' = None
                         /\ pc' = "record"
                         /\ UNCHANGED retry
               ELSE /\ result' = DataRecord(code, o)
                    /\ pc' = "record"
                    /\ UNCHANGED retry
    /\ UNCHANGED <<bvars, nvars, xvars, save_error, edition, ec_file, run, disk, output, checkpoint,
                   remaining, i, batch_count, queue, running, finished,
                   test_i, test_ok, loaded, completed, saveStart, diskRun,
                   prev>>

(***************************************************************************)
(* The loop body of main after process_ec returned (batch, pw).            *)
(***************************************************************************)
Record ==
    /\ pc = "record"
    /\ edition \in {"batch", "pw"}
    /\ LET code == remaining[i + 1]
           saving == ShouldSave(edition, i + 1, batch_count + 1)
       IN  /\ checkpoint' = RecordResult(edition, checkpoint, code, result)
           /\ completed' = Append(completed, code)
           /\ i' = i + 1
           /\ batch_count' = IF edition = "pw" /\ ~saving
                             THEN batch_count + 1 ELSE 0
           /\ pc' = IF saving THEN "save"
                    ELSE AfterItem(edition, i + 1, remaining)
    /\ retry' = 0
    /\ result' = None
    /\ attemptLog' = << >>
    /\ UNCHANGED <<bvars, nvars, xvars, save_error, edition, ec_file, run, disk, output, remaining,
                   queue, running, finished, test_i, test_ok, loaded, calls,
                   saveStart, diskRun, prev>>

(***************************************************************************)
(* save_checkpoint.  open(CHECKPOINT_FILE, "w") truncates the file, then   *)
(* json.dump writes the new content: two steps, with the file incomplete   *)
(* in between.                                                             *)
(***************************************************************************)
SaveOpen ==
    /\ pc \in {"save", "fsave"}
    /\ checkpoint' = [checkpoint EXCEPT !.last_updated = Now]
    /\ disk' = Truncated
    /\ saveStart' = SeqToSet(completed)
    /\ pc' = IF pc = "save" THEN "dump" ELSE "fdump"
    /\ UNCHANGED <<bvars, nvars, xvars, save_error, edition, ec_file, run, output, remaining, i, batch_count,
                   retry, result, queue, running, finished, test_i, test_ok,
                   loaded, calls, completed, attemptLog, diskRun, prev>>

\* SaveDump writing the checkpoint as it was loaded, not as it is now
MutSaveDumpStale ==
    /\ pc \in {"dump", "fdump"}
    /\ disk' = loaded
    /\ diskRun' = run
    /\ pc' = IF pc = "dump" THEN AfterItem(edition, i, remaining)
             ELSE "output"
    /\ UNCHANGED <<bvars, nvars, xvars, save_error, edition, ec_file, run, output, checkpoint,
                   remaining, i, batch_count, retry, result, queue, running,
                   finished, test_i, test_ok, loaded, calls, completed,
                   attemptLog, saveStart, prev>>

SaveDump ==
    /\ pc \in {"dump", "fdump"}
    /\ disk' = checkpoint
    /\ diskRun' = run
    /\ pc' = IF pc = "dump" THEN AfterItem(edition, i, remaining)
             ELSE "output"
    /\ UNCHANGED <<bvars, nvars, xvars, save_error, edition, ec_file, run, output, checkpoint,
                   remaining, i, batch_count, retry, result, queue, running,
                   finished, test_i, test_ok, loaded, calls, completed,
                   attemptLog, saveStart, prev>>

\* WriteOutput clearing the failed list once it is exported
MutWriteOutputClears ==
    /\ pc = "output"
    /\ output' = FinalOutput(checkpoint)
    /\ checkpoint' = [checkpoint EXCEPT !.failed = << >>]
    /\ pc' = "done"
    /\ UNCHANGED <<bvars, nvars, xvars, save_error, edition, ec_file, run, disk, remaining,
                   i, batch_count, retry, result, queue, running, finished,
                   test_i, test_ok, loaded, calls, completed, attemptLog,
                   saveStart, diskRun, prev>>

(***************************************************************************)
(* The consolidated output written after the final save.                   *)
(***************************************************************************)
WriteOutput ==
    /\ pc = "output"
    /\ output' = FinalOutput(checkpoint)
    /\ pc' = "done"
    /\ UNCHANGED <<bvars, nvars, xvars, save_error, edition, ec_file, run, disk, checkpoint, remaining,
                   i, batch_count, retry, result, queue, running, finished,
                   test_i, test_ok, loaded, calls, completed, attemptLog,
                   saveStart, diskRun, prev>>

(***************************************************************************)
(* API edition.  ThreadPoolExecutor(max_workers=MAX_WORKERS): a submitted  *)
(* task is taken by a worker thread as soon as one is free, in submission  *)
(* order; a worker that finished a task takes the next one.                *)
(***************************************************************************)
\* Startable of an executor without max_workers: every queued task starts
MutStartableAll(q, r) == Len(q)

\* how many queued tasks the free workers take
Startable(q, r) == Min(MAX_WORKERS - Cardinality(r), Len(q))

\* the tasks running after the free workers took theirs
RunningAfter(q, r) == r \cup {q[k] : k \in 1..Startable(q, r)}

\* the tasks still queued after the free workers took theirs
QueueAfter(q, r) == SubSeq(q, Startable(q, r) + 1, Len(q))

\* process_ec is called once for every task a worker takes
CallsAfter(cl, q, r) ==
    [c \in Codes |->
        IF c \in RunningAfter(q, r) \ r THEN cl[c] + 1 ELSE cl[c]]

(***************************************************************************)
(* API edition: the start-up test of the first API_TEST_COUNT items of     *)
(* remaining.  process_ec is called, its result is kept only in            *)
(* test_results; with no success main returns, otherwise every item of     *)
(* remaining is submitted to the executor.                                 *)
(***************************************************************************)
TestStep ==
    /\ pc = "test"
    /\ edition = "api"
    /\ \E ok \in BOOLEAN :
        LET code == remaining[test_i + 1]
            last == test_i + 1 = Min(API_TEST_COUNT, Len(remaining))
            tested == [calls EXCEPT ![code] = @ + 1]
        IN  /\ test_ok' = (test_ok \/ ok)
            /\ test_i' = test_i + 1
            /\ IF ~last
               THEN /\ pc' = "test"
                    /\ calls' = tested
                    /\ UNCHANGED <<queue, running>>
               ELSE IF test_ok \/ ok
               THEN \* futures = {executor.submit(process_ec, code): ...}
                    /\ pc' = "pool"
                    /\ queue' = QueueAfter(remaining, {})
                    /\ running' = RunningAfter(remaining, {})
                    /\ calls' = CallsAfter(tested, remaining, {})
               ELSE \* "Direct API access not working": return
                    /\ pc' = "done"
                    /\ calls' = tested
                    /\ UNCHANGED <<queue, running>>
    /\ UNCHANGED <<bvars, nvars, xvars, save_error, edition, ec_file, run, disk, output, checkpoint,
                   remaining, i, batch_count, retry, result, finished,
                   loaded, completed, attemptLog, saveStart, diskRun, prev>>

\* whether the executor's worker threads run: main is inside the `with`, or
\* an exception left it and __exit__ waits in shutdown(wait=True) while the
\* workers run every submitted task
PoolOpen ==
    edition = "api" /\ pc \in {"pool", "save", "dump", "interrupted", "aborted"}

\* WorkerFinish with process_ec writing its result to the checkpoint itself
\* before it returns it
MutWorkerFinishWrites ==
    /\ PoolOpen
    /\ \E code \in running, ok \in BOOLEAN :
        LET r == running \ {code}
            res == IF ok THEN ApiRecord(code) ELSE None
        IN  /\ running' = RunningAfter(queue, r)
            /\ queue' = QueueAfter(queue, r)
            /\ calls' = CallsAfter(calls, queue, r)
            /\ finished' = Append(finished,
                                  [ec_code |-> code, result |-> res])
            /\ checkpoint' = RecordResult(edition, checkpoint, code, res)
    /\ UNCHANGED <<bvars, nvars, xvars, save_error, edition, ec_file, run, pc, disk, output,
                   remaining, i, batch_count, retry, result, test_i, test_ok,
                   loaded, completed, attemptLog, saveStart, diskRun, prev>>

\* process_ec returns in a worker thread: (ec_code, record) or (ec_code, None)
WorkerFinish ==
    /\ PoolOpen
    /\ \E code \in running, ok \in BOOLEAN :
        LET r == running \ {code}
        IN  /\ running' = RunningAfter(queue, r)
            /\ queue' = QueueAfter(queue, r)
            /\ calls' = CallsAfter(calls, queue, r)
            /\ finished' = Append(finished,
                    [ec_code |-> code,
                     result |-> IF ok THEN ApiRecord(code) ELSE None])
    /\ UNCHANGED <<bvars, nvars, xvars, save_error, edition, ec_file, run, pc, disk, output, checkpoint,
                   remaining, i, batch_count, retry, result, test_i, test_ok,
                   loaded, completed, attemptLog, saveStart, diskRun, prev>>

\* the body of `for i, future in enumerate(as_completed(futures))`
Collect ==
    /\ pc = "pool"
    /\ edition = "api"
    /\ finished # << >>
    /\ LET f == Head(finished)
           saving == ShouldSave(edition, i + 1, 0)
       IN  /\ checkpoint' = RecordResult(edition, checkpoint, f.ec_code,
                                         f.result)
           /\ completed' = Append(completed, f.ec_code)
           /\ i' = i + 1
           /\ pc' = IF saving THEN "save"
                    ELSE AfterItem(edition, i + 1, remaining)
    /\ finished' = Tail(finished)
    /\ UNCHANGED <<bvars, nvars, xvars, save_error, edition, ec_file, run, disk, output, remaining,
                   batch_count, retry, result, queue, running, test_i,
                   test_ok, loaded, calls, attemptLog, saveStart, diskRun,
                   prev>>

(***************************************************************************)
(* The environment: the process is killed (power loss, kill -9, a fatal    *)
(* error) at any point of a run; the script is started again after a run   *)
(* ended, with nothing but the files left of the earlier run.              *)
(***************************************************************************)
RunningPcs ==
    {"extract", "record", "save", "dump", "fsave", "fdump", "output", "test",
     "pool"}

Crash ==
    /\ pc \in RunningPcs
    /\ pc' = "crashed"
    /\ prev' = EndOfRun(TRUE)
    \* the process's memory is gone
    /\ checkpoint' = EmptyCheckpoint
    /\ remaining' = << >>
    /\ i' = 0
    /\ batch_count' = 0
    /\ retry' = 0
    /\ result' = None
    /\ queue' = << >>
    /\ running' = {}
    /\ finished' = << >>
    /\ test_i' = 0
    /\ test_ok' = FALSE
    /\ loaded' = EmptyCheckpoint
    /\ calls' = ZeroCalls
    /\ completed' = << >>
    /\ attemptLog' = << >>
    /\ saveStart' = {}
    /\ UNCHANGED <<bvars, nvars, xvars, save_error, edition, ec_file, run, disk, output, diskRun>>

(***************************************************************************)
(* A stop signal (SIGINT, SIGTERM) while main waits for an extraction.  No *)
(* script installs a handler or catches KeyboardInterrupt or               *)
(* CancelledError: process_ec catches Exception only, so the exception     *)
(* leaves main, and no save_checkpoint is on its way out.                  *)
(***************************************************************************)
Interrupt ==
    /\ pc \in {"extract", "test", "pool"}
    /\ pc' = "interrupted"
    /\ UNCHANGED <<bvars, nvars, xvars, save_error, edition, ec_file, run, disk, output,
                   checkpoint, remaining, i, batch_count, retry, result,
                   queue, running, finished, test_i, test_ok, loaded, calls,
                   completed, attemptLog, saveStart, diskRun, prev>>

\* SaveFail with the exception caught and dropped around save_checkpoint:
\* main goes on as after a save
MutSaveFailContinues ==
    /\ pc \in {"save", "fsave", "dump", "fdump"}
    /\ pc' = IF pc \in {"save", "dump"} THEN AfterItem(edition, i, remaining)
             ELSE "output"
    /\ save_error' =
          [raised |-> TRUE, calls |-> calls, checkpoint |-> checkpoint]
    /\ UNCHANGED <<bvars, nvars, xvars, edition, ec_file, run, disk, output, checkpoint,
                   remaining, i, batch_count, retry, result, queue, running,
                   finished, test_i, test_ok, loaded, calls, completed,
                   attemptLog, saveStart, diskRun, prev>>

(***************************************************************************)
(* save_checkpoint raises: open() fails (permissions, a missing directory) *)
(* and the file is as it was, or json.dump fails (disk full) and the file  *)
(* stays truncated.  No caller catches the exception, so it leaves main.   *)
(***************************************************************************)
SaveFail ==
    /\ pc \in {"save", "fsave", "dump", "fdump"}
    /\ pc' = "aborted"
    /\ save_error' =
          [raised |-> TRUE, calls |-> calls, checkpoint |-> checkpoint]
    /\ UNCHANGED <<bvars, nvars, xvars, edition, ec_file, run, disk, output, checkpoint,
                   remaining, i, batch_count, retry, result, queue, running,
                   finished, test_i, test_ok, loaded, calls, completed,
                   attemptLog, saveStart, diskRun, prev>>

\* the process has ended: main returned or raised, and the executor, if
\* any, has run its tasks
Exited ==
    /\ pc \in {"done", "crashed", "error", "interrupted", "aborted"}
    /\ running = {}

Restart ==
    /\ Exited
    /\ run < MaxRuns
    /\ run' = run + 1
    /\ pc' = "start"
    /\ prev' = IF pc = "crashed" THEN prev ELSE EndOfRun(FALSE)
    /\ checkpoint' = EmptyCheckpoint
    /\ remaining' = << >>
    /\ i' = 0
    /\ batch_count' = 0
    /\ retry' = 0
    /\ result' = None
    /\ queue' = << >>
    /\ running' = {}
    /\ finished' = << >>
    /\ test_i' = 0
    /\ test_ok' = FALSE
    /\ loaded' = EmptyCheckpoint
    /\ calls' = ZeroCalls
    /\ completed' = << >>
    /\ attemptLog' = << >>
    /\ saveStart' = {}
    /\ save_error' = NoSaveError
    /\ UNCHANGED <<bvars, nvars, xvars, edition, ec_file, disk, output, diskRun>>

Next ==
    \/ Load
    \/ Attempt
    \/ Record
    \/ SaveOpen
    \/ SaveDump
    \/ WriteOutput
    \/ TestStep
    \/ WorkerFinish
    \/ Collect
    \/ Crash
    \/ Interrupt
    \/ SaveFail
    \/ Restart

Spec == Init /\ [][Next]_vars

(***************************************************************************)
(* A run that nothing kills: the same steps without Crash.  The script is  *)
(* a sequential program (the executor's threads included) whose waits all  *)
(* carry a timeout, so a step that can be taken is taken.                  *)
(***************************************************************************)
NextNoCrash ==
    \/ Load
    \/ Attempt
    \/ Record
    \/ SaveOpen
    \/ SaveDump
    \/ WriteOutput
    \/ TestStep
    \/ WorkerFinish
    \/ Collect
    \/ Restart

LiveSpec == Init /\ [][NextNoCrash]_vars /\ WF_vars(NextNoCrash)

(***************************************************************************)
(* check_extraction_status.py, run at any moment of the life of the batch  *)
(* coordinator: it reads ec_standards_api.json and the checkpoint file of  *)
(* the batch coordinator, asks pgrep whether that coordinator runs, and    *)
(* with --build starts the registry builder and the report generator when  *)
(* it finds the extraction complete.                                       *)
(***************************************************************************)
\* load_ec_count
load_ec_count == IF ec_file THEN Len(ec_codes) ELSE 0

\* check_process_running: pgrep finds the process of the batch coordinator
check_process_running ==
    edition = "batch"
        /\ pc \notin {"done", "crashed", "error", "interrupted", "aborted"}

\* is_complete = processed >= total_ecs or (not running and processed > 0)
is_complete(processed, total_ecs, alive) ==
    processed >= total_ecs \/ (~alive /\ processed > 0)

\* what main prints and does, for the counts it computed
StatusReport(build, processed, total_ecs, alive) ==
    [report |->
        IF is_complete(processed, total_ecs, alive) THEN "complete"
        ELSE IF ~alive /\ processed = 0 THEN "empty"
        ELSE "progress",
     built |-> build /\ is_complete(processed, total_ecs, alive),
     total_ecs |-> total_ecs,
     processed |-> processed,
     running |-> alive]

\* one run of the status check, with or without --build; json.load raises
\* on a checkpoint file that is being written
CheckStatus ==
    /\ edition = "batch"
    /\ \E build \in BOOLEAN :
          status' =
              IF disk = Truncated
              THEN [NoStatus EXCEPT !.report = "error",
                                    !.total_ecs = load_ec_count]
              ELSE StatusReport(build, Len(load_checkpoint(disk).processed),
                                load_ec_count, check_process_running)
    /\ UNCHANGED <<cvars, bvars, nvars, kvars, pgvars>>

StatusInit == Init /\ edition = "batch"

StatusNext ==
    \/ Load
    \/ Attempt
    \/ Record
    \/ SaveOpen
    \/ SaveDump
    \/ WriteOutput
    \/ Crash
    \/ Interrupt
    \/ SaveFail
    \/ Restart
    \/ CheckStatus

StatusSpec == StatusInit /\ [][StatusNext]_vars

(***************************************************************************)
(* build_master_registries.py.  A Python str is modelled as the sequence   *)
(* of its characters, so that lower(), strip(), the regular expressions    *)
(* and the comparison of strings are computed character by character.      *)
(***************************************************************************)
UpperCase ==
    <<"A", "B", "C", "D", "E", "F", "G", "H", "I", "J", "K", "L", "M", "N",
      "O", "P", "Q", "R", "S", "T", "U", "V", "W", "X", "Y", "Z">>

LowerCase ==
    <<"a", "b", "c", "d", "e", "f", "g", "h", "i", "j", "k", "l", "m", "n",
      "o", "p", "q", "r", "s", "t", "u", "v", "w", "x", "y", "z">>

\* the characters of the names, in the order of their code points
CodePoints == <<" ", ",", ".", ":", ";">> \o UpperCase \o LowerCase

Ord(ch) == CHOOSE k \in 1..Len(CodePoints) : CodePoints[k] = ch

\* a < b of two str: the first differing character decides, a proper prefix
\* is smaller
StrLess(a, b) ==
    \E k \in 1..Len(b) :
        /\ \A j \in 1..(k - 1) : j <= Len(a) /\ a[j] = b[j]
        /\ k > Len(a) \/ Ord(a[k]) < Ord(b[k])

\* what \s matches
Whitespace == {" "}

\* what [.,;:] matches
Punctuation == {".", ",", ";", ":"}

\* str.lower()
lower(s) ==
    [k \in 1..Len(s) |->
        IF \E u \in 1..Len(UpperCase) : UpperCase[u] = s[k]
        THEN LowerCase[CHOOSE u \in 1..Len(UpperCase) : UpperCase[u] = s[k]]
        ELSE s[k]]

\* str.strip()
strip(s) ==
    LET solid == {k \in 1..Len(s) : s[k] \notin Whitespace}
    IN  IF solid = {} THEN << >>
        ELSE SubSeq(s, CHOOSE k \in solid : \A j \in solid : k <= j,
                       CHOOSE k \in solid : \A j \in solid : j <= k)

(***************************************************************************)
(* Regular expressions: a pattern is a sequence of items, an item a set of *)
(* characters with a quantifier: "1" (exactly one), "?" or "*".            *)
(***************************************************************************)
Lit(ch) == [cls |-> {ch}, q |-> "1"]

\* \.?
OptDot == [cls |-> {"."}, q |-> "?"]

\* \s*
Spaces == [cls |-> Whitespace, q |-> "*"]

\* s\.?a\.?\s*de\s*c\.?v\.?
SA_DE_CV ==
    <<Lit("s"), OptDot, Lit("a"), OptDot, Spaces, Lit("d"), Lit("e"), Spaces,
      Lit("c"), OptDot, Lit("v"), OptDot>>

\* s\.?c\.?
SC == <<Lit("s"), OptDot, Lit("c"), OptDot>>

\* a\.?c\.?
AC == <<Lit("a"), OptDot, Lit("c"), OptDot>>

\* whether items pi.. of pat match s from position si on; with toEnd the
\* match has to reach the end of s (the pattern ends in $)
RECURSIVE Matches(_, _, _, _, _)
Matches(pat, s, pi, si, toEnd) ==
    IF pi > Len(pat) THEN (~toEnd \/ si > Len(s))
    ELSE LET item == pat[pi]
             takes == si <= Len(s) /\ s[si] \in item.cls
         IN  CASE item.q = "1" ->
                    takes /\ Matches(pat, s, pi + 1, si + 1, toEnd)
               [] item.q = "?" ->
                    \/ takes /\ Matches(pat, s, pi + 1, si + 1, toEnd)
                    \/ Matches(pat, s, pi + 1, si, toEnd)
               [] item.q = "*" ->
                    \/ takes /\ Matches(pat, s, pi, si + 1, toEnd)
                    \/ Matches(pat, s, pi + 1, si, toEnd)

\* re.search(pat, s, re.I) is not None, for a pattern of lower-case letters
re_search(pat, s) ==
    \E k \in 1..(Len(s) + 1) : Matches(pat, lower(s), 1, k, FALSE)

\* the legal suffix is left on the name
MutKeepSuffix(n) == n

\* re.sub(r"\s*(s\.?a\.?\s*de\s*c\.?v\.?|s\.?c\.?|a\.?c\.?)\s*$", "", n):
\* the leftmost position from which the pattern matches up to the end
strip_legal_suffix(n) ==
    LET starts ==
            {k \in 1..Len(n) :
                \E alt \in {SA_DE_CV, SC, AC} :
                    Matches(<<Spaces>> \o alt \o <<Spaces>>, n, 1, k, TRUE)}
    IN  IF starts = {} THEN n
        ELSE SubSeq(n, 1, (CHOOSE k \in starts : \A j \in starts : k <= j) - 1)

\* re.sub(r"\s+", " ", n), from position k on
RECURSIVE collapse_whitespace(_, _)
collapse_whitespace(n, k) ==
    IF k > Len(n) THEN << >>
    ELSE IF n[k] \notin Whitespace
    THEN <<n[k]>> \o collapse_whitespace(n, k + 1)
    ELSE IF k > 1 /\ n[k - 1] \in Whitespace
    THEN collapse_whitespace(n, k + 1)
    ELSE <<" ">> \o collapse_whitespace(n, k + 1)

\* re.sub(r"[.,;:]+", "", n)
remove_punctuation(n) ==
    LET kept(ch) == ch \notin Punctuation
    IN  SelectSeq(n, kept)

\* normalize_name without name.lower()
MutNormalizeKeepsCase(name) ==
    IF name = << >> THEN << >>
    ELSE strip(remove_punctuation(collapse_whitespace(
                strip_legal_suffix(strip(name)), 1)))

normalize_name(name) ==
    IF name = << >> THEN << >>
    ELSE strip(remove_punctuation(collapse_whitespace(
                strip_legal_suffix(strip(lower(name))), 1)))

\* extract_entity_info(name)["entity_type"]
extract_entity_info(name) ==
    IF re_search(SA_DE_CV, name) THEN "SA de CV"
    ELSE IF re_search(SC, name) THEN "SC"
    ELSE IF re_search(AC, name) THEN "AC"
    ELSE "Unknown"

(***************************************************************************)
(* The names the extraction records of the model hold.                     *)
(***************************************************************************)
\* "Ab.", "ab SC", "ab AC", "Cd.", "ab", "S.C." and "   "
CertifierNames ==
    {<<"A", "b", ".">>,
     <<"a", "b", " ", "S", "C">>,
     <<"a", "b", " ", "A", "C">>,
     <<"C", "d", ".">>,
     <<"a", "b">>,
     <<"S", ".", "C", ".">>,
     <<" ", " ", " ">>}

\* "Curso", "CURSO", "Taller" and "Cur."
CourseNames ==
    {<<"C", "u", "r", "s", "o">>,
     <<"C", "U", "R", "S", "O">>,
     <<"T", "a", "l", "l", "e", "r">>,
     <<"C", "u", "r", ".">>}

\* the certifier names of the end-to-end scenario
InstitutoSAdeCV ==
    <<"I", "n", "s", "t", "i", "t", "u", "t", "o", " ", "A", "B", "C", " ",
      "S", ".", "A", ".", " ", "d", "e", " ", "C", ".", "V", ".">>

INSTITUTO_ABC ==
    <<"I", "N", "S", "T", "I", "T", "U", "T", "O", " ", "A", "B", "C">>

instituto_abc ==
    <<"i", "n", "s", "t", "i", "t", "u", "t", "o", " ", "a", "b", "c">>

ScenarioNames == {InstitutoSAdeCV, INSTITUTO_ABC, instituto_abc}

\* the records hold certifier names alone, course names next to one
\* certifier name, or the certifier names of the scenario, which has no
\* courses
NamePools ==
    {[certifiers |-> CertifierNames, courses |-> {}],
     [certifiers |-> {<<"C", "d", ".">>}, courses |-> CourseNames],
     [certifiers |-> ScenarioNames, courses |-> {}]}

\* normalize_name and extract_entity_info of the names above, computed once
NormalizedKeys ==
    [n \in CertifierNames \cup CourseNames \cup ScenarioNames |->
        normalize_name(n)]

EntityTypes ==
    [n \in CertifierNames \cup ScenarioNames |-> extract_entity_info(n)]

\* normalize_name(name)
KeyOf(name) ==
    IF name \in DOMAIN NormalizedKeys THEN NormalizedKeys[name]
    ELSE normalize_name(name)

\* extract_entity_info(name)["entity_type"]
TypeOf(name) ==
    IF name \in DOMAIN EntityTypes THEN EntityTypes[name]
    ELSE extract_entity_info(name)

\* the keys of ec_data; the dict is iterated in the order of its keys
EcCodes == 1..NumEcs

\* the title of the work item ec_code
TitleOf(ec_code) == <<"Estandar", ec_code>>

EmptyRecords ==
    [ec \in EcCodes |->
        [title |-> TitleOf(ec), certifiers |-> << >>, courses |-> << >>]]

\* the number of names in the records
RECURSIVE RelationCount(_, _)
RelationCount(data, ec) ==
    IF ec = 0 THEN 0
    ELSE Len(data[ec].certifiers) + Len(data[ec].courses)
            + RelationCount(data, ec - 1)

(***************************************************************************)
(* build_ece_registry and build_ccap_registry differ in the field they     *)
(* read, the length floor, the prefix of the ids and the entity_type, so   *)
(* one set of operators models both, with kind "ECE" or "CCAP".            *)
(***************************************************************************)
\* len(cert_name) < 3
CERT_NAME_FLOOR == 3
\* len(course) < 5
COURSE_NAME_FLOOR == 5

LengthFloor(kind) ==
    IF kind = "ECE" THEN CERT_NAME_FLOOR ELSE COURSE_NAME_FLOOR

\* data.get("certifiers", []) / data.get("courses", [])
NamesOf(kind, rec) == IF kind = "ECE" THEN rec.certifiers ELSE rec.courses

\* the entity_type of a fresh entry of ece_map (None in the source)
NoEntityType == ""

\* f"ECE-{n:05d}" / f"CCAP-{n:05d}"
EntityId(kind, n) == [prefix |-> kind, number |-> n]

\* AddName keeping a list of entries instead of a dict: a name always makes
\* a new entry
MutAddNameAppends(groups, kind, ec_code, name) ==
    IF name = << >> \/ Len(name) < LengthFloor(kind) THEN groups
    ELSE LET norm == KeyOf(name)
         IN  IF norm = << >> THEN groups
             ELSE Append(groups,
                         [key |-> norm, names |-> {name},
                          ec_codes |-> {ec_code},
                          entity_type |-> TypeOf(name)])

\* AddName with `ece["ec_codes"] = {ec_code}`: the last work item replaces
\* the ones before it
MutAddNameLastCode(groups, kind, ec_code, name) ==
    IF name = << >> \/ Len(name) < LengthFloor(kind) THEN groups
    ELSE LET norm == KeyOf(name)
             at == {k \in 1..Len(groups) : groups[k].key = norm}
             fresh == [key |-> norm, names |-> {}, ec_codes |-> {},
                       entity_type |-> NoEntityType]
             add(g) ==
                 [g EXCEPT !.names = @ \cup {name},
                           !.ec_codes = {ec_code},
                           !.entity_type =
                               IF @ \in {NoEntityType, "Unknown"}
                               THEN TypeOf(name) ELSE @]
         IN  IF norm = << >> THEN groups
             ELSE IF at = {} THEN Append(groups, add(fresh))
             ELSE [groups EXCEPT ![CHOOSE k \in at : TRUE] = add(@)]

\* AddName setting entity_type from every name: the last variant decides
MutAddNameLastType(groups, kind, ec_code, name) ==
    IF name = << >> \/ Len(name) < LengthFloor(kind) THEN groups
    ELSE LET norm == KeyOf(name)
             at == {k \in 1..Len(groups) : groups[k].key = norm}
             fresh == [key |-> norm, names |-> {}, ec_codes |-> {},
                       entity_type |-> NoEntityType]
             add(g) ==
                 [g EXCEPT !.names = @ \cup {name},
                           !.ec_codes = @ \cup {ec_code},
                           !.entity_type = TypeOf(name)]
         IN  IF norm = << >> THEN groups
             ELSE IF at = {} THEN Append(groups, add(fresh))
             ELSE [groups EXCEPT ![CHOOSE k \in at : TRUE] = add(@)]

\* AddName without "if not norm: continue": a name with an empty key is
\* grouped like any other
MutAddNameKeepsEmpty(groups, kind, ec_code, name) ==
    IF name = << >> \/ Len(name) < LengthFloor(kind) THEN groups
    ELSE LET norm == KeyOf(name)
             at == {k \in 1..Len(groups) : groups[k].key = norm}
             fresh == [key |-> norm, names |-> {}, ec_codes |-> {},
                       entity_type |-> NoEntityType]
             add(g) ==
                 [g EXCEPT !.names = @ \cup {name},
                           !.ec_codes = @ \cup {ec_code},
                           !.entity_type =
                               IF @ \in {NoEntityType, "Unknown"}
                               THEN TypeOf(name) ELSE @]
         IN  IF at = {} THEN Append(groups, add(fresh))
             ELSE [groups EXCEPT ![CHOOSE k \in at : TRUE] = add(@)]

\* the body of the inner loop: ece_map / ccap_map is the sequence of its
\* entries in insertion order
AddName(groups, kind, ec_code, name) ==
    IF name = << >> \/ Len(name) < LengthFloor(kind) THEN groups
    ELSE LET norm == KeyOf(name)
             at == {k \in 1..Len(groups) : groups[k].key = norm}
             fresh == [key |-> norm, names |-> {}, ec_codes |-> {},
                       entity_type |-> NoEntityType]
             add(g) ==
                 [g EXCEPT !.names = @ \cup {name},
                           !.ec_codes = @ \cup {ec_code},
                           !.entity_type =
                               IF @ \in {NoEntityType, "Unknown"}
                               THEN TypeOf(name) ELSE @]
         IN  IF norm = << >> THEN groups
             ELSE IF at = {} THEN Append(groups, add(fresh))
             ELSE [groups EXCEPT ![CHOOSE k \in at : TRUE] = add(@)]

\* for cert_name in certifiers, from index k on
RECURSIVE AddNames(_, _, _, _, _)
AddNames(groups, kind, ec_code, names, k) ==
    IF k > Len(names) THEN groups
    ELSE AddNames(AddName(groups, kind, ec_code, names[k]), kind, ec_code,
                  names, k + 1)

\* for ec_code, data in ec_data.items(), from ec_code on
RECURSIVE GroupFrom(_, _, _, _)
GroupFrom(groups, kind, data, ec_code) ==
    IF ec_code > Len(data) THEN groups
    ELSE GroupFrom(AddNames(groups, kind, ec_code,
                            NamesOf(kind, data[ec_code]), 1),
                   kind, data, ec_code + 1)

\* the names max(names, key=len) can return: names is a set, its iteration
\* order is not defined, and max returns the first longest name it meets
Longest(names) == {n \in names : \A m \in names : Len(m) <= Len(n)}

\* the choices of a canonical name for each of the first k entries
RECURSIVE CanonicalChoices(_, _)
CanonicalChoices(groups, k) ==
    IF k = 0 THEN {<< >>}
    ELSE {Append(c, n) : c \in CanonicalChoices(groups, k - 1),
                         n \in Longest(groups[k].names)}

\* sorted() of a set of str
RECURSIVE SortedNames(_)
SortedNames(S) ==
    IF S = {} THEN << >>
    ELSE LET first == CHOOSE x \in S : \A y \in S \ {x} : StrLess(x, y)
         IN  <<first>> \o SortedNames(S \ {first})

\* sorted() of a set of codes
RECURSIVE SortedCodes(_)
SortedCodes(S) ==
    IF S = {} THEN << >>
    ELSE LET first == CHOOSE x \in S : \A y \in S : x <= y
         IN  <<first>> \o SortedCodes(S \ {first})

\* Entity without "- {canonical}": alternate_names lists every name
MutEntityAllNames(kind, n, g, canonical) ==
    LET common == [id |-> EntityId(kind, n),
                   canonical_name |-> canonical,
                   alternate_names |-> SortedNames(g.names),
                   normalized_key |-> g.key,
                   ec_codes |-> SortedCodes(g.ec_codes),
                   ec_count |-> Cardinality(g.ec_codes)]
    IN  IF kind = "ECE"
        THEN [id |-> common.id,
              canonical_name |-> common.canonical_name,
              alternate_names |-> common.alternate_names,
              normalized_key |-> common.normalized_key,
              entity_type |-> g.entity_type,
              ec_codes |-> common.ec_codes,
              ec_count |-> common.ec_count]
        ELSE common

\* the dict appended to registry for the n-th entry of the map
Entity(kind, n, g, canonical) ==
    LET common == [id |-> EntityId(kind, n),
                   canonical_name |-> canonical,
                   alternate_names |-> SortedNames(g.names \ {canonical}),
                   normalized_key |-> g.key,
                   ec_codes |-> SortedCodes(g.ec_codes),
                   ec_count |-> Cardinality(g.ec_codes)]
    IN  IF kind = "ECE"
        THEN [id |-> common.id,
              canonical_name |-> common.canonical_name,
              alternate_names |-> common.alternate_names,
              normalized_key |-> common.normalized_key,
              entity_type |-> g.entity_type,
              ec_codes |-> common.ec_codes,
              ec_count |-> common.ec_count]
        ELSE common

\* the sort key (-ec_count, canonical_name) of a is smaller than that of b
RankedBefore(a, b) ==
    \/ a.ec_count > b.ec_count
    \/ /\ a.ec_count = b.ec_count
       /\ StrLess(a.canonical_name, b.canonical_name)

\* list.sort is stable: e goes before the first entry its key is smaller
\* than
InsertRanked(sorted, e) ==
    LET later == {k \in 1..Len(sorted) : RankedBefore(e, sorted[k])}
        at == IF later = {} THEN Len(sorted) + 1
              ELSE CHOOSE k \in later : \A j \in later : k <= j
    IN  SubSeq(sorted, 1, at - 1) \o <<e>> \o SubSeq(sorted, at, Len(sorted))

\* registry.sort(key=lambda x: (-x["ec_count"], x["canonical_name"]))
RECURSIVE SortRanked(_, _)
SortRanked(registry, k) ==
    IF k = 0 THEN << >>
    ELSE InsertRanked(SortRanked(registry, k - 1), registry[k])

\* ReassignIds left out: the ids stay those of the order of discovery
MutKeepIds(kind, registry) == registry

\* for i, ece in enumerate(registry): ece["id"] = f"ECE-{i + 1:05d}"
ReassignIds(kind, registry) ==
    [k \in 1..Len(registry) |->
        [registry[k] EXCEPT !.id = EntityId(kind, k)]]

\* what build_ece_registry / build_ccap_registry can return for ec_data
build_registry(kind, data) ==
    LET groups == GroupFrom(<< >>, kind, data, 1)
    IN  {ReassignIds(kind,
            SortRanked([k \in 1..Len(groups) |->
                           Entity(kind, k, groups[k], c[k])], Len(groups))) :
            c \in CanonicalChoices(groups, Len(groups))}

build_ece_registry(data) == build_registry("ECE", data)

build_ccap_registry(data) == build_registry("CCAP", data)

\* norm_to_id: a later entity of the registry overwrites an earlier one
\* with the same key
NormToId(registry) ==
    LET keys == {registry[k].normalized_key : k \in 1..Len(registry)}
        last(norm) ==
            CHOOSE k \in 1..Len(registry) :
                /\ registry[k].normalized_key = norm
                /\ \A j \in 1..Len(registry) :
                      registry[j].normalized_key = norm => j <= k
    IN  [norm \in keys |-> registry[last(norm)].id]

\* sorted() of a set of ids: ids of one prefix whose numbers have at most
\* five digits are ordered as their numbers are
RECURSIVE SortedIds(_)
SortedIds(S) ==
    IF S = {} THEN << >>
    ELSE LET first == CHOOSE x \in S : \A y \in S : x.number <= y.number
         IN  <<first>> \o SortedIds(S \ {first})

\* the ids build_ec_ece_matrix collects for the certifiers of one record:
\* every name of the list is normalized and looked up, whatever its length
RelatedIds(certifiers, norm_to_id) ==
    {norm_to_id[KeyOf(certifiers[k])] :
        k \in {j \in 1..Len(certifiers) :
                  KeyOf(certifiers[j]) \in DOMAIN norm_to_id}}

\* an entry that lists the id of each certifier as often as it is named
MutMatrixListsRepeats(data, registry) ==
    LET norm_to_id == NormToId(registry)
        found(ec_code) ==
            LET certifiers == data[ec_code].certifiers
                hit(cert) == KeyOf(cert) \in DOMAIN norm_to_id
                hits == SelectSeq(certifiers, hit)
            IN  [k \in 1..Len(hits) |-> norm_to_id[KeyOf(hits[k])]]
    IN  [ec_code \in DOMAIN data |->
            [ece_ids |-> found(ec_code),
             ece_count |-> Len(found(ec_code)),
             title |-> data[ec_code].title]]

build_ec_ece_matrix(data, registry) ==
    LET norm_to_id == NormToId(registry)
    IN  [ec_code \in DOMAIN data |->
            LET ece_ids == RelatedIds(data[ec_code].certifiers, norm_to_id)
            IN  [ece_ids |-> SortedIds(ece_ids),
                 ece_count |-> Cardinality(ece_ids),
                 title |-> data[ec_code].title]]

\* ece_registry[:20], scaled
TOP_CERTIFIERS == 1
\* c >= 5, scaled
MANY_ECS == 2
\* c >= 10, scaled
VERY_MANY_ECS == 3

RECURSIVE SumOf(_, _)
SumOf(counts, k) == IF k = 0 THEN 0 ELSE counts[k] + SumOf(counts, k - 1)

\* max() of a non-empty list
MaxOf(counts) ==
    CHOOSE c \in SeqToSet(counts) : \A d \in SeqToSet(counts) : d <= c

\* round(total / count, 2) in hundredths: with fewer than eight entities
\* total / count is never half way between two hundredths
RoundedAverage(total, count) == (200 * total + count) \div (2 * count)

\* sum(1 for c in ece_ec_counts if c == 1)
CountEqual(counts, c) ==
    Cardinality({k \in 1..Len(counts) : counts[k] = c})

\* sum(1 for c in ece_ec_counts if c >= least)
CountAtLeast(counts, least) ==
    Cardinality({k \in 1..Len(counts) : counts[k] >= least})

\* the whole registry, with no cut
MutTopAll(ece) == ece

\* ece_registry[:20]
top_eces(ece) ==
    SubSeq(ece, 1, IF Len(ece) < TOP_CERTIFIERS THEN Len(ece)
                   ELSE TOP_CERTIFIERS)

generate_stats(data, ece, ccap) ==
    LET with == {ec_code \in DOMAIN data : data[ec_code].certifiers # << >>}
        total_relationships ==
            SumOf([ec_code \in DOMAIN data |->
                      Len(data[ec_code].certifiers)], Len(data))
        ece_ec_counts == [k \in 1..Len(ece) |-> ece[k].ec_count]
        top == top_eces(ece)
    IN  [extraction_summary |->
            [total_ecs_processed |-> Len(data),
             ecs_with_certifiers |-> Cardinality(with),
             ecs_without_certifiers |-> Len(data) - Cardinality(with),
             total_certifier_relationships |-> total_relationships],
         ece_registry_stats |->
            [unique_certifiers |-> Len(ece),
             avg_ecs_per_certifier |->
                IF ece_ec_counts # << >>
                THEN RoundedAverage(SumOf(ece_ec_counts, Len(ece_ec_counts)),
                                    Len(ece_ec_counts))
                ELSE 0,
             max_ecs_per_certifier |->
                IF ece_ec_counts # << >> THEN MaxOf(ece_ec_counts) ELSE 0,
             certifiers_with_1_ec |-> CountEqual(ece_ec_counts, 1),
             certifiers_with_5plus_ecs |->
                CountAtLeast(ece_ec_counts, MANY_ECS),
             certifiers_with_10plus_ecs |->
                CountAtLeast(ece_ec_counts, VERY_MANY_ECS)],
         ccap_registry_stats |->
            [unique_courses_or_centers |-> Len(ccap)],
         top_20_certifiers |->
            [k \in 1..Len(top) |->
                [name |-> top[k].canonical_name,
                 ec_count |-> top[k].ec_count]]]

(***************************************************************************)
(* main of build_master_registries.py: the extraction records are loaded,  *)
(* then the two registries, the matrix and the statistics are built.  The  *)
(* records are whatever the extraction wrote: any lists of certifier and   *)
(* course names, grown here one name at a time before the builder is       *)
(* started.  The coordinators do not run.                                  *)
(***************************************************************************)
CoordinatorOff ==
    /\ edition = "batch"
    /\ ec_file = FALSE
    /\ run = 1
    /\ pc = "off"
    /\ disk = NoFile
    /\ output = NoFile
    /\ checkpoint = EmptyCheckpoint
    /\ remaining = << >>
    /\ i = 0
    /\ batch_count = 0
    /\ retry = 0
    /\ result = None
    /\ queue = << >>
    /\ running = {}
    /\ finished = << >>
    /\ test_i = 0
    /\ test_ok = FALSE
    /\ loaded = EmptyCheckpoint
    /\ calls = ZeroCalls
    /\ completed = << >>
    /\ attemptLog = << >>
    /\ saveStart = {}
    /\ diskRun = 0
    /\ prev = NoPrev
    /\ save_error = NoSaveError

BuildInit ==
    /\ CoordinatorOff
    /\ NormalizerOff
    /\ OthersOff
    /\ bpc = "loaded"
    /\ ec_data = EmptyRecords
    /\ ece_registry = << >>
    /\ ccap_registry = << >>
    /\ matrix = << >>
    /\ stats = << >>

\* every name of the records is a name of the pool
DrawnFrom(pool, data) ==
    \A ec_code \in DOMAIN data :
        /\ SeqToSet(data[ec_code].certifiers) \subseteq pool.certifiers
        /\ SeqToSet(data[ec_code].courses) \subseteq pool.courses

\* the input has one more name: ec_data[ec_code]["certifiers"] or
\* ec_data[ec_code]["courses"] is one longer
ExtendRecords ==
    /\ bpc = "loaded"
    /\ RelationCount(ec_data, NumEcs) < MaxRelations
    /\ \E pool \in NamePools, ec_code \in EcCodes :
          /\ DrawnFrom(pool, ec_data)
          /\ \/ \E n \in pool.certifiers :
                   ec_data' =
                       [ec_data EXCEPT ![ec_code].certifiers = Append(@, n)]
             \/ \E n \in pool.courses :
                   ec_data' =
                       [ec_data EXCEPT ![ec_code].courses = Append(@, n)]
    /\ UNCHANGED <<cvars, nvars, xvars, bpc, ece_registry, ccap_registry, matrix,
                   stats>>

BuildEceRegistry ==
    /\ bpc = "loaded"
    /\ ece_registry' \in build_ece_registry(ec_data)
    /\ bpc' = "ece"
    /\ UNCHANGED <<cvars, nvars, xvars, ec_data, ccap_registry, matrix, stats>>

BuildCcapRegistry ==
    /\ bpc = "ece"
    /\ ccap_registry' \in build_ccap_registry(ec_data)
    /\ bpc' = "ccap"
    /\ UNCHANGED <<cvars, nvars, xvars, ec_data, ece_registry, matrix, stats>>

BuildMatrix ==
    /\ bpc = "ccap"
    /\ matrix' = build_ec_ece_matrix(ec_data, ece_registry)
    /\ bpc' = "matrix"
    /\ UNCHANGED <<cvars, nvars, xvars, ec_data, ece_registry, ccap_registry, stats>>

GenerateStats ==
    /\ bpc = "matrix"
    /\ stats' = generate_stats(ec_data, ece_registry, ccap_registry)
    /\ bpc' = "stats"
    /\ UNCHANGED <<cvars, nvars, xvars, ec_data, ece_registry, ccap_registry,
                   matrix>>

BuildNext ==
    \/ ExtendRecords
    \/ BuildEceRegistry
    \/ BuildCcapRegistry
    \/ BuildMatrix
    \/ GenerateStats

BuildSpec == BuildInit /\ [][BuildNext]_vars

(***************************************************************************)
(* normalize_name on its own: it is called on a name made of a word, legal *)
(* suffixes, spaces and separator punctuation, and then on its own result. *)
(***************************************************************************)
\* "ab", " ", ".", ",", "S.C.", "A.C." and "S.A. de C.V."
NameTokens ==
    {<<"a", "b">>,
     <<" ">>,
     <<".">>,
     <<",">>,
     <<"S", ".", "C", ".">>,
     <<"A", ".", "C", ".">>,
     <<"S", ".", "A", ".", " ", "d", "e", " ", "C", ".", "V", ".">>}

\* the names of at most k tokens
RECURSIVE RawNames(_)
RawNames(k) ==
    IF k = 0 THEN {<< >>}
    ELSE RawNames(k - 1)
            \cup {n \o t : n \in RawNames(k - 1), t \in NameTokens}

NormInit ==
    /\ CoordinatorOff
    /\ BuilderOff
    /\ OthersOff
    /\ npc = "raw"
    /\ raw_name \in RawNames(MaxTokens)
    /\ n_once = << >>
    /\ n_twice = << >>

\* normalize_name(raw_name)
NormalizeOnce ==
    /\ npc = "raw"
    /\ n_once' = normalize_name(raw_name)
    /\ npc' = "once"
    /\ UNCHANGED <<cvars, bvars, xvars, raw_name, n_twice>>

\* normalize_name called on the key it returned
NormalizeAgain ==
    /\ npc = "once"
    /\ n_twice' = normalize_name(n_once)
    /\ npc' = "twice"
    /\ UNCHANGED <<cvars, bvars, xvars, raw_name, n_once>>

NormNext ==
    \/ NormalizeOnce
    \/ NormalizeAgain

NormSpec == NormInit /\ [][NormNext]_vars

(***************************************************************************)
(* The pages of the batch and of the Playwright edition.  main takes the   *)
(* work items one after the other and calls process_ec.  The batch         *)
(* process_ec opens a page of its own, closes it before it calls itself    *)
(* again after a failure, and closes it in its finally clause; closing a   *)
(* closed page does nothing.  The Playwright main opens one page before    *)
(* the loop and passes it to every process_ec.  frames holds the page of   *)
(* each active call, so retry is Len(frames) - 1.                          *)
(***************************************************************************)
PageEditions == {"batch", "pw"}

PageInit ==
    /\ CoordinatorOff
    /\ BuilderOff
    /\ NormalizerOff
    /\ status = NoStatus
    /\ CommitteesOff
    /\ page_pc = "launch"
    /\ page_edition \in PageEditions
    /\ page_item = 0
    /\ frames = << >>
    /\ open_pages = {}
    /\ pages_made = 0
    /\ page_users = << >>

\* the page of the innermost active call of process_ec
TopPage == frames[Len(frames)]

\* await page.close()
ClosePage(open, page) == open \ {page}

\* the retry branch leaving the page of the failed attempt open
MutRetryKeepsPage(open, page) == open

\* except: if retry < 2: await page.close()
RetryCloses(open, page) == ClosePage(open, page)

\* browser = await p.chromium.launch(...); the Playwright edition also
\* makes its context and its page
LaunchBrowser ==
    /\ page_pc = "launch"
    /\ page_pc' = "next"
    /\ IF page_edition = "pw"
       THEN /\ pages_made' = pages_made + 1
            /\ open_pages' = open_pages \cup {pages_made + 1}
            /\ page_users' = Append(page_users, {})
       ELSE UNCHANGED <<pages_made, open_pages, page_users>>
    /\ UNCHANGED <<cvars, bvars, nvars, stvars, kvars, page_edition,
                   page_item, frames>>

\* for ec_code in remaining: process_ec is called for the next work item,
\* or the loop ends and browser.close() closes what is open
NextItem ==
    /\ page_pc = "next"
    /\ IF page_item < NumCodes
       THEN /\ page_item' = page_item + 1
            /\ IF page_edition = "batch"
               THEN /\ page_pc' = "new_page"
                    /\ UNCHANGED frames
               ELSE /\ page_pc' = "try"
                    /\ frames' = <<pages_made>>
            /\ UNCHANGED open_pages
       ELSE /\ page_pc' = "done"
            /\ open_pages' = {}
            /\ UNCHANGED <<page_item, frames>>
    /\ UNCHANGED <<cvars, bvars, nvars, stvars, kvars, page_edition,
                   pages_made, page_users>>

\* page = await browser.new_page() of the batch process_ec
NewPage ==
    /\ page_pc = "new_page"
    /\ pages_made' = pages_made + 1
    /\ open_pages' = open_pages \cup {pages_made + 1}
    /\ frames' = Append(frames, pages_made + 1)
    /\ page_users' = Append(page_users, {})
    /\ page_pc' = "try"
    /\ UNCHANGED <<cvars, bvars, nvars, stvars, kvars, page_edition,
                   page_item>>

\* the try block of process_ec: the work item is looked up in the page of
\* the call; the attempt gives data or fails
TryBody ==
    /\ page_pc = "try"
    /\ page_users' = [page_users EXCEPT ![TopPage] = @ \cup {page_item}]
    /\ \E ok \in BOOLEAN :
          IF page_edition = "batch"
          THEN IF ~ok /\ Len(frames) - 1 < BATCH_RETRY_LIMIT
               THEN \* except: page.close(), then process_ec(retry + 1)
                    /\ open_pages' = RetryCloses(open_pages, TopPage)
                    /\ page_pc' = "new_page"
                    /\ UNCHANGED frames
               ELSE \* return data / return None: the finally clause runs
                    /\ page_pc' = "finally"
                    /\ UNCHANGED <<open_pages, frames>>
          ELSE IF ~ok /\ Len(frames) - 1 < MAX_RETRIES
               THEN \* process_ec(page, ec_code, retry + 1)
                    /\ frames' = Append(frames, TopPage)
                    /\ UNCHANGED <<page_pc, open_pages>>
               ELSE \* every call returns what the innermost returned
                    /\ frames' = << >>
                    /\ page_pc' = "next"
                    /\ UNCHANGED open_pages
    /\ UNCHANGED <<cvars, bvars, nvars, stvars, kvars, page_edition,
                   page_item, pages_made>>

\* finally: await page.close(), of the innermost call; the call returns
\* into the except clause of its caller, whose finally clause runs next
Finally ==
    /\ page_pc = "finally"
    /\ open_pages' = ClosePage(open_pages, TopPage)
    /\ frames' = SubSeq(frames, 1, Len(frames) - 1)
    /\ page_pc' = IF Len(frames) = 1 THEN "next" ELSE "finally"
    /\ UNCHANGED <<cvars, bvars, nvars, stvars, kvars, page_edition,
                   page_item, pages_made, page_users>>

PageNext ==
    \/ LaunchBrowser
    \/ NextItem
    \/ NewPage
    \/ TryBody
    \/ Finally

PageSpec == PageInit /\ [][PageNext]_vars

(***************************************************************************)
(* extract_committees_resume.py: the ids 1..MAX_ID are scanned in order,   *)
(* the committees found are appended to a list, and list and progress are  *)
(* written to two files at a fixed cadence and once at the end.  A         *)
(* committee is its id (fetch_committee sets result["id"] = id).           *)
(***************************************************************************)
\* MAX_ID = 800, scaled
MAX_ID == 4

\* `if id % 50 == 0`, scaled
SAVE_EVERY_IDS == 2

CommitteeInit ==
    /\ CoordinatorOff
    /\ BuilderOff
    /\ NormalizerOff
    /\ status = NoStatus
    /\ PagesOff
    /\ kpc = "start"
    /\ kruns = 1
    /\ committees = << >>
    /\ scan_id = 0
    /\ committees_file = NoFile
    /\ progress_file = NoFile
    /\ final_save = FALSE

\* committees, start_id = load_existing() and the test `start_id > MAX_ID`;
\* json.load raises on a file that was opened for writing and not written
load_existing ==
    /\ kpc = "start"
    /\ IF committees_file = Truncated \/ progress_file = Truncated
       THEN /\ kpc' = "error"
            /\ UNCHANGED <<committees, scan_id>>
       ELSE LET start_id == IF progress_file = NoFile THEN 1
                            ELSE progress_file.last_id + 1
            IN  /\ committees' = IF committees_file = NoFile THEN << >>
                                 ELSE committees_file.list
                /\ scan_id' = start_id - 1
                /\ kpc' = IF start_id > MAX_ID THEN "done" ELSE "scan"
    /\ UNCHANGED <<cvars, bvars, nvars, stvars, pgvars, kruns,
                   committees_file, progress_file, final_save>>

\* one pass of the loop body up to the save: fetch_committee(id) returns a
\* committee or None
FetchCommittee ==
    /\ kpc = "scan"
    /\ scan_id < MAX_ID
    /\ \E found \in BOOLEAN :
          LET id == scan_id + 1
          IN  /\ committees' = IF found THEN Append(committees, id)
                               ELSE committees
              /\ scan_id' = id
              /\ IF id % SAVE_EVERY_IDS = 0
                 THEN kpc' = "open_committees" /\ final_save' = FALSE
                 ELSE IF id = MAX_ID
                 THEN kpc' = "open_committees" /\ final_save' = TRUE
                 ELSE kpc' = "scan" /\ final_save' = FALSE
    /\ UNCHANGED <<cvars, bvars, nvars, stvars, pgvars, kruns,
                   committees_file, progress_file>>

\* save_progress: with open(OUTPUT_FILE, "w") as f
OpenCommitteesFile ==
    /\ kpc = "open_committees"
    /\ committees_file' = Truncated
    /\ kpc' = "dump_committees"
    /\ UNCHANGED <<cvars, bvars, nvars, stvars, pgvars, kruns, committees,
                   scan_id, progress_file, final_save>>

\* save_progress: json.dump(committees, f)
DumpCommittees ==
    /\ kpc = "dump_committees"
    /\ committees_file' = [list |-> committees]
    /\ kpc' = "open_progress"
    /\ UNCHANGED <<cvars, bvars, nvars, stvars, pgvars, kruns, committees,
                   scan_id, progress_file, final_save>>

\* save_progress: with open(PROGRESS_FILE, "w") as f
OpenProgressFile ==
    /\ kpc = "open_progress"
    /\ progress_file' = Truncated
    /\ kpc' = "dump_progress"
    /\ UNCHANGED <<cvars, bvars, nvars, stvars, pgvars, kruns, committees,
                   scan_id, committees_file, final_save>>

\* save_progress: json.dump({"last_id": last_id, ...}, f); last_id is id in
\* the loop and MAX_ID after it, which is the last id scanned either way.
\* The loop goes on, or ends with the final save_progress
DumpProgress ==
    /\ kpc = "dump_progress"
    /\ progress_file' = [last_id |-> scan_id]
    /\ IF final_save THEN kpc' = "done" /\ final_save' = FALSE
       ELSE IF scan_id = MAX_ID
       THEN kpc' = "open_committees" /\ final_save' = TRUE
       ELSE kpc' = "scan" /\ final_save' = FALSE
    /\ UNCHANGED <<cvars, bvars, nvars, stvars, pgvars, kruns, committees,
                   scan_id, committees_file>>

\* the process is killed
CommitteeCrash ==
    /\ kpc \in {"scan", "open_committees", "dump_committees",
                "open_progress", "dump_progress"}
    /\ kpc' = "crashed"
    /\ UNCHANGED <<cvars, bvars, nvars, stvars, pgvars, kruns, committees,
                   scan_id, committees_file, progress_file, final_save>>

\* the script is started again
CommitteeRestart ==
    /\ kpc \in {"done", "crashed", "error"}
    /\ kruns < MaxRuns
    /\ kruns' = kruns + 1
    /\ kpc' = "start"
    /\ committees' = << >>
    /\ scan_id' = 0
    /\ final_save' = FALSE
    /\ UNCHANGED <<cvars, bvars, nvars, stvars, pgvars, committees_file,
                   progress_file>>

CommitteeNext ==
    \/ load_existing
    \/ FetchCommittee
    \/ OpenCommitteesFile
    \/ DumpCommittees
    \/ OpenProgressFile
    \/ DumpProgress
    \/ CommitteeCrash
    \/ CommitteeRestart

CommitteeSpec == CommitteeInit /\ [][CommitteeNext]_vars

(***************************************************************************)
(* Vocabulary of the properties.                                           *)
(***************************************************************************)
\* what load_checkpoint would return from the file, when it can be read
Persisted == IF IsCheckpoint(disk) THEN disk ELSE EmptyCheckpoint

\* the save cadence K of the running edition
Cadence ==
    CASE edition = "batch" -> BATCH_SAVE_SIZE
      [] edition = "pw"    -> PW_BATCH_SIZE
      [] edition = "api"   -> API_BATCH_SIZE

\* completions recorded in memory that the checkpoint file does not hold
UnsavedCount ==
    (Len(checkpoint.processed) + Len(checkpoint.failed))
        - (Len(Persisted.processed) + Len(Persisted.failed))

\* main is past load_checkpoint and the process is alive or has returned
Loaded == pc \in RunningPcs \cup {"done"}

CountIn(seq, c) == Cardinality({k \in 1..Len(seq) : seq[k] = c})

\* the entries this run appended to the processed and to the failed list
NewProcessed ==
    SubSeq(checkpoint.processed, Len(loaded.processed) + 1,
           Len(checkpoint.processed))

NewFailed ==
    SubSeq(checkpoint.failed, Len(loaded.failed) + 1, Len(checkpoint.failed))

\* a restarted run of the batch coordinator after a crash
BatchRestarted == edition = "batch" /\ run > 1 /\ prev.crashed /\ Loaded

(***************************************************************************)
(* C1 (as stated) - Resumption: when a run of the batch coordinator        *)
(* crashed after k items had completed, the restarted run calls process_ec *)
(* for none of those k items, and a restarted run that reaches its end has *)
(* called it once for each of the other items.                             *)
(***************************************************************************)
C1_ResumeSkipsCompleted ==
    BatchRestarted =>
        /\ \A c \in prev.completed : calls[c] = 0
        /\ pc = "done" =>
              \A c \in prev.remaining \ prev.completed : calls[c] = 1

(***************************************************************************)
(* C1 (amended) - Resumption from the persisted checkpoint: the restarted  *)
(* run of the batch coordinator never calls process_ec for an item in the  *)
(* processed list of the checkpoint file it loaded; of the items the       *)
(* crashed run had completed, at most BATCH_SAVE_SIZE are in neither list  *)
(* of that file (the completions since the last finished save); and a      *)
(* restarted run that reaches its end has called process_ec exactly once   *)
(* for every item not in the loaded processed list - the items the crashed *)
(* run never completed, those it completed after its last save, and those  *)
(* recorded as failed - and not at all for the others.  A restarted run    *)
(* that finds the file cut short by the crash stops in load_checkpoint and *)
(* calls process_ec for no item.                                           *)
(***************************************************************************)
C1_ResumeFromPersisted ==
    (edition = "batch" /\ run > 1 /\ prev.crashed) =>
        LET kept == SeqToSet(loaded.processed)
            known == kept \cup SeqToSet(loaded.failed)
        IN  /\ \A c \in kept : calls[c] = 0
            /\ Loaded =>
                  Cardinality(prev.completed \ known) <= BATCH_SAVE_SIZE
            /\ pc = "done" =>
                  /\ \A c \in Codes \ kept : calls[c] = 1
                  /\ prev.remaining \ prev.completed \subseteq Codes \ kept
            /\ pc = "error" =>
                  /\ disk = Truncated
                  /\ \A c \in Codes : calls[c] = 0

\* C1 witness: a restarted run ended having skipped an item whose success
\* the crashed run had persisted and having extracted again an item the
\* crashed run had completed after its last save
C1_Witness ==
    /\ BatchRestarted
    /\ pc = "done"
    /\ \E c \in prev.completed :
          c \in SeqToSet(loaded.processed) /\ calls[c] = 0
    /\ \E c \in prev.completed :
          /\ c \notin SeqToSet(loaded.processed) \cup SeqToSet(loaded.failed)
          /\ calls[c] = 1

(***************************************************************************)
(* C2 - save_checkpoint is crash-atomic: after a crash the checkpoint file *)
(* is a complete checkpoint (the previous or the new one) or still absent, *)
(* never a truncated file.                                                 *)
(***************************************************************************)
C2_SaveCrashAtomic == pc = "crashed" => disk # Truncated

(***************************************************************************)
(* C3 - Bounded loss: while no save is under way, the number of            *)
(* completions recorded in memory and not held by the checkpoint file is   *)
(* at most the cadence K of the edition.                                   *)
(***************************************************************************)
C3_BoundedLoss ==
    (Loaded /\ disk # Truncated) => UnsavedCount <= Cadence

\* C3 witness: K completions are recorded and the save they trigger has not
\* begun
C3_Witness ==
    /\ pc = "save"
    /\ disk # Truncated
    /\ UnsavedCount = Cadence

(***************************************************************************)
(* C4 - Dispatch set: once main has loaded the checkpoint, remaining is    *)
(* the universe minus the loaded processed list, each code once and in the *)
(* order of the universe (the whole universe when there was no checkpoint  *)
(* file), and process_ec is called for no code of that processed list and  *)
(* for no code outside remaining.                                          *)
(***************************************************************************)
C4_DispatchRemaining ==
    Loaded =>
        LET universe == IF ec_file THEN Codes ELSE {}
            kept == SeqToSet(loaded.processed)
        IN  /\ SeqToSet(remaining) = universe \ kept
            /\ Len(remaining) = Cardinality(universe \ kept)
            /\ \A k \in 1..(Len(remaining) - 1) : remaining[k] < remaining[k + 1]
            /\ (run = 1 /\ ec_file) => remaining = ec_codes
            /\ \A c \in Codes : calls[c] > 0 => c \in SeqToSet(remaining)

\* C4 witness: a later run loaded a checkpoint that lists a processed and a
\* failed item, and is extracting
C4_Witness ==
    /\ run > 1
    /\ loaded.processed # << >>
    /\ loaded.failed # << >>
    /\ remaining # << >>
    /\ \E c \in Codes : calls[c] > 0

(***************************************************************************)
(* C5 - Success takes precedence over failure: in every checkpoint file no *)
(* work item is both in processed and in failed.                           *)
(***************************************************************************)
C5_SuccessPrecedence ==
    IsCheckpoint(disk) =>
        SeqToSet(disk.processed) \cap SeqToSet(disk.failed) = {}

(***************************************************************************)
(* C6 - No automatic retry of failed items: a later run of the batch       *)
(* coordinator calls process_ec for no item that the checkpoint it loaded  *)
(* lists as failed.                                                        *)
(***************************************************************************)
C6_NoAutoRetry ==
    (edition = "batch" /\ run > 1 /\ Loaded) =>
        \A c \in SeqToSet(loaded.failed) : calls[c] = 0

(***************************************************************************)
(* C7 - Retry ceiling of the batch process_ec: at most 3 attempts per      *)
(* item, an attempt is made only after all earlier ones failed, the        *)
(* returned record is the data of the first attempt that succeeded, and    *)
(* None is returned exactly when 3 attempts failed.  While process_ec runs *)
(* fewer than 3 attempts are behind it, so it returns after at most 3.     *)
(***************************************************************************)
C7_RetryCeiling ==
    edition = "batch" =>
        LET n == Len(attemptLog)
        IN  /\ n <= 3
            /\ \A k \in 1..(n - 1) : attemptLog[k] = Fail
            /\ pc = "extract" =>
                  /\ n < 3
                  /\ retry = n
                  /\ \A k \in 1..n : attemptLog[k] = Fail
            /\ pc = "record" =>
                  /\ n >= 1
                  /\ (result = None) <=> (n = 3 /\ attemptLog[3] = Fail)
                  /\ result # None =>
                        /\ attemptLog[n] # Fail
                        /\ result = DataRecord(remaining[i + 1], attemptLog[n])

\* C7 witness: the batch process_ec returned None after its third attempt
C7_Witness ==
    /\ edition = "batch"
    /\ pc = "record"
    /\ Len(attemptLog) = 3
    /\ result = None

(***************************************************************************)
(* C8 - Empty extraction is a Failure (batch and Playwright edition): a    *)
(* record stored in data has a non-empty title or a certifier, and an item *)
(* whose record has neither is not in processed.                           *)
(***************************************************************************)
C8_EmptyIsFailure ==
    edition \in {"batch", "pw"} =>
        \A c \in DOMAIN checkpoint.data :
            \/ checkpoint.data[c].title # ""
            \/ checkpoint.data[c].certifiers # << >>

C9_EndState ==
    pc = "done" =>
        IF edition = "api" /\ ~test_ok
        THEN /\ checkpoint = loaded
             /\ completed = << >>
             /\ diskRun # run
        ELSE /\ \A c \in SeqToSet(remaining) :
                   CountIn(NewProcessed, c) + CountIn(NewFailed, c) = 1
             /\ Len(NewProcessed) + Len(NewFailed) = Len(remaining)
             /\ remaining # << >> => (disk = checkpoint /\ diskRun = run)

\* a step of main that records a failure as a completion other than the
\* last leaves main in its loop: the next item, or the save before it
C9_FailureContinues ==
    (/\ i' = i + 1
     /\ Len(checkpoint'.failed) = Len(checkpoint.failed) + 1
     /\ i' < Len(remaining))
        => pc' \in {"extract", "pool", "save"}

C11_WriteThenStop ==
    pc \in {"output", "done"} => load_checkpoint(disk) = checkpoint

\* C11 witness: main returned after a final save of this run that holds
\* completions of this run, and the export is written
C11_Witness ==
    /\ pc = "done"
    /\ diskRun = run
    /\ completed # << >>
    /\ checkpoint.failed # << >>
    /\ output = FinalOutput(checkpoint)

(***************************************************************************)
(* C12 (as stated) - Draining: when a stop signal arrives while the        *)
(* coordinator is Running, the process exits only after the checkpoint     *)
(* file holds every item completed so far.                                 *)
(***************************************************************************)
C12_Draining ==
    (pc = "interrupted" /\ Exited) =>
        SeqToSet(completed) \subseteq
            SeqToSet(Persisted.processed) \cup SeqToSet(Persisted.failed)

(***************************************************************************)
(* C13 - Concurrency bound: in the API coordinator at most MAX_WORKERS     *)
(* calls of process_ec are in flight at any moment.                        *)
(***************************************************************************)
C13_ConcurrencyBound == Cardinality(running) <= MAX_WORKERS

\* C13 witness: every worker of the pool is busy and a task waits
C13_Witness ==
    /\ edition = "api"
    /\ pc = "pool"
    /\ Cardinality(running) = MAX_WORKERS
    /\ queue # << >>

\* api: the start-up test passed and every item of remaining was submitted
PoolSubmitted ==
    /\ edition = "api"
    /\ remaining # << >>
    /\ test_i = Min(API_TEST_COUNT, Len(remaining))
    /\ test_ok

\* the number of places a submitted task is at: queued, running in a
\* worker, finished and not collected, or collected by main
PlacesOf(c) ==
    CountIn(queue, c) + (IF c \in running THEN 1 ELSE 0)
      + Cardinality({k \in 1..Len(finished) : finished[k].ec_code = c})
      + CountIn(completed, c)

\* every submitted task is at one place, and a collected one is once in
\* the entries this run appended to processed and failed
C14_AppliedOnce ==
    PoolSubmitted =>
        /\ \A c \in SeqToSet(remaining) :
              /\ PlacesOf(c) = 1
              /\ CountIn(NewProcessed, c) + CountIn(NewFailed, c)
                    = CountIn(completed, c)
        /\ Len(completed) = i

\* a step that changes the checkpoint of the API coordinator is a step of
\* main: load_checkpoint, the time stamp of save_checkpoint, or the loop
\* body applying the one result as_completed yielded
C14_ControlThreadWrites ==
    (edition = "api" /\ checkpoint' # checkpoint /\ run' = run
        /\ pc' # "crashed") =>
        \/ pc \in {"start", "save", "fsave"}
        \/ /\ pc = "pool"
           /\ finished # << >>
           /\ finished' = Tail(finished)
           /\ i' = i + 1
           /\ UNCHANGED <<running, queue>>
           /\ checkpoint' = RecordResult(edition, checkpoint,
                                Head(finished).ec_code, Head(finished).result)

(***************************************************************************)
(* C14 - Single writer: in the API coordinator the checkpoint is changed   *)
(* by the control thread only, one completed task at a time, the workers   *)
(* only return their result; under every interleaving of the workers the   *)
(* result of each submitted task is applied exactly once and none is lost. *)
(***************************************************************************)
C14_SingleWriter == []C14_AppliedOnce /\ [][C14_ControlThreadWrites]_vars

\* C14 witness: a worker runs, a finished task waits to be collected and
\* another has been applied
C14_Witness ==
    /\ PoolSubmitted
    /\ pc = "pool"
    /\ running # {}
    /\ finished # << >>
    /\ completed # << >>

(***************************************************************************)
(* C15 - Persistence errors are fatal: when save_checkpoint raised, main   *)
(* is left at that point; it calls process_ec for no further item (batch,  *)
(* pw), submits no further task (api, where every task was submitted       *)
(* before the loop and nothing is resubmitted) and changes the in-memory   *)
(* checkpoint no more.                                                     *)
(***************************************************************************)
C15_PersistenceErrorFatal ==
    save_error.raised =>
        /\ pc = "aborted"
        /\ checkpoint = save_error.checkpoint
        /\ edition # "api" => calls = save_error.calls
        /\ edition = "api" => \A c \in SeqToSet(remaining) : PlacesOf(c) = 1

\* C15 witness: a save raised after a success was recorded, with items of
\* remaining not yet extracted
C15_Witness ==
    /\ save_error.raised
    /\ pc = "aborted"
    /\ edition = "batch"
    /\ checkpoint.processed # << >>
    /\ i < Len(remaining)

(***************************************************************************)
(* C16 (as stated) - Universe-load errors are fatal: with the work-item    *)
(* list file missing every coordinator ends in an error, having called     *)
(* process_ec for no item and written neither checkpoint nor output.       *)
(***************************************************************************)
C16_UniverseLoadFatal ==
    ~ec_file =>
        /\ pc \in {"start", "error"}
        /\ calls = ZeroCalls
        /\ disk = NoFile
        /\ output = NoFile

(***************************************************************************)
(* C17 (as stated) - Idle to Finalizing: a run that finds remaining empty  *)
(* calls process_ec for no item, writes the consolidated output built from *)
(* the loaded checkpoint and stops with the checkpoint as it was loaded.   *)
(***************************************************************************)
C17_IdleToFinalizing ==
    (ec_file /\ Loaded /\ remaining = << >>) =>
        /\ pc = "done"
        /\ calls = ZeroCalls
        /\ checkpoint = loaded
        /\ output = FinalOutput(loaded)

\* the record main stores: what process_ec returned (batch, pw) or the
\* result of the future as_completed yielded (api)
StoredRecord == IF edition = "api" THEN Head(finished).result ELSE result

\* a step of main's loop body that appends X to processed sets data[X] to
\* the record just extracted and leaves the other records as they were
C18_ReplacesOne ==
    (pc \in {"record", "pool"} /\ run' = run
        /\ Len(checkpoint'.processed) = Len(checkpoint.processed) + 1) =>
        LET X == checkpoint'.processed[Len(checkpoint'.processed)]
        IN  /\ DOMAIN checkpoint'.data = DOMAIN checkpoint.data \cup {X}
            /\ checkpoint'.data[X] = StoredRecord
            /\ \A c \in DOMAIN checkpoint.data \ {X} :
                  checkpoint'.data[c] = checkpoint.data[c]

\* data is keyed by the code: the record under a code is that code's record
C18_KeyedByCode ==
    \A c \in DOMAIN checkpoint.data : checkpoint.data[c].ec_code = c

(***************************************************************************)
(* C18 - One record per work item, last write wins: data holds at most one *)
(* record per item; a successful extraction of X sets data[X] to the new   *)
(* record, whole, and leaves the record of every other item unchanged.     *)
(***************************************************************************)
C18_LastWriteWins == []C18_KeyedByCode /\ [][C18_ReplacesOne]_vars

\* C18 witness: the last completion of this run was a success stored next
\* to the record of another item
C18_Witness ==
    /\ completed # << >>
    /\ completed[Len(completed)] \in DOMAIN checkpoint.data
    /\ Cardinality(DOMAIN checkpoint.data) >= 2
    /\ checkpoint.failed # << >>

\* the registries that have been built
BuiltRegistries ==
    (IF bpc \in {"ece", "ccap", "matrix", "stats"} THEN {ece_registry}
     ELSE {})
        \cup (IF bpc \in {"ccap", "matrix", "stats"} THEN {ccap_registry}
              ELSE {})

(***************************************************************************)
(* C19 - normalized_key is unique across each registry: no two entities of *)
(* the list build_ece_registry returned, and no two of the list            *)
(* build_ccap_registry returned, have the same normalized_key.             *)
(***************************************************************************)
C19_UniqueKeys ==
    \A registry \in BuiltRegistries :
        \A m, n \in 1..Len(registry) :
            registry[m].normalized_key = registry[n].normalized_key => m = n

\* C19 witness: the certifier registry holds two entities, one of them
\* built from two raw names with the same key
C19_Witness ==
    /\ bpc = "ccap"
    /\ Len(ece_registry) = 2
    /\ \E n \in 1..2 : ece_registry[n].alternate_names # << >>

(***************************************************************************)
(* C20 - Ranking and IDs: each registry is ordered by ec_count descending  *)
(* and, among equal counts, by canonical_name ascending; the entity at     *)
(* position n carries the id numbered n, whatever the order in which the   *)
(* entities were discovered.                                               *)
(***************************************************************************)
C20_RankingAndIds ==
    \A registry \in BuiltRegistries :
        /\ \A n \in 1..Len(registry) : registry[n].id.number = n
        /\ \A n \in 1..(Len(registry) - 1) :
              \/ registry[n].ec_count > registry[n + 1].ec_count
              \/ /\ registry[n].ec_count = registry[n + 1].ec_count
                 /\ StrLess(registry[n].canonical_name,
                            registry[n + 1].canonical_name)

\* C20 witness: the certifier discovered first has one work item and is
\* ranked second, behind a certifier with two work items
C20_Witness ==
    /\ bpc = "ccap"
    /\ Len(ece_registry) = 2
    /\ ece_registry[1].ec_count = 2
    /\ ece_registry[2].ec_count = 1
    /\ ec_data[1].certifiers # << >>
    /\ normalize_name(ec_data[1].certifiers[1])
          = ece_registry[2].normalized_key

\* the registries that have been built, by the prefix of their ids
BuiltKinds ==
    (IF bpc \in {"ece", "ccap", "matrix", "stats"} THEN {"ECE"} ELSE {})
        \cup (IF bpc \in {"ccap", "matrix", "stats"} THEN {"CCAP"} ELSE {})

RegistryOf(kind) == IF kind = "ECE" THEN ece_registry ELSE ccap_registry

\* the names of the records of the first ec work items, in input order
RECURSIVE InputNames(_, _)
InputNames(kind, ec) ==
    IF ec = 0 THEN << >>
    ELSE InputNames(kind, ec - 1) \o NamesOf(kind, ec_data[ec])

\* the raw names of the input that pass the length floor and have the key
\* norm, in input order
Variants(kind, norm) ==
    LET grouped(n) ==
            /\ Len(n) >= LengthFloor(kind)
            /\ KeyOf(n) = norm
    IN  SelectSeq(InputNames(kind, NumEcs), grouped)

\* what the claim compares of two registries
EntityTuples(registry) ==
    {[normalized_key |-> registry[k].normalized_key,
      canonical_name |-> registry[k].canonical_name,
      alternate_names |-> registry[k].alternate_names,
      ec_count |-> registry[k].ec_count] : k \in 1..Len(registry)}

IdByKey(registry) ==
    {<<registry[k].normalized_key, registry[k].id>> : k \in 1..Len(registry)}

(***************************************************************************)
(* C21 - Build determinism: whatever a second build over the same records  *)
(* returns has the same set of (normalized_key, canonical_name,            *)
(* alternate_names, ec_count) tuples and the same id for each key as the   *)
(* registry that was built, also when a group holds two raw variants of    *)
(* the same maximum length.                                                *)
(***************************************************************************)
C21_BuildDeterminism ==
    \A kind \in BuiltKinds :
        \A again \in build_registry(kind, ec_data) :
            /\ EntityTuples(again) = EntityTuples(RegistryOf(kind))
            /\ IdByKey(again) = IdByKey(RegistryOf(kind))

(***************************************************************************)
(* C22 - Canonical name choice: the canonical_name of an entity is a raw   *)
(* variant of its group of maximum length and, when several variants have  *)
(* that length, the one met first in the input.                            *)
(***************************************************************************)
C22_CanonicalChoice ==
    \A kind \in BuiltKinds :
        \A k \in 1..Len(RegistryOf(kind)) :
            LET e == RegistryOf(kind)[k]
                variants == Variants(kind, e.normalized_key)
                longest(j) ==
                    \A m \in 1..Len(variants) :
                        Len(variants[m]) <= Len(variants[j])
                first == CHOOSE j \in 1..Len(variants) :
                            /\ longest(j)
                            /\ \A m \in 1..(j - 1) : ~longest(m)
            IN  /\ variants # << >>
                /\ e.canonical_name = variants[first]

\* the raw names of entity k of the certifier registry
NamesIn(k) ==
    {ece_registry[k].canonical_name}
        \cup SeqToSet(ece_registry[k].alternate_names)

\* the certifier names of the input that pass the length floor
FlooredCertifiers ==
    {n \in SeqToSet(InputNames("ECE", NumEcs)) : Len(n) >= CERT_NAME_FLOOR}

(***************************************************************************)
(* C23 - Dedup grouping: two raw certifier names that pass the length      *)
(* floor are names of the same entity exactly when they have the same      *)
(* non-empty normalized key; "Instituto ABC S.A. de C.V." and              *)
(* "instituto abc", named with no variant of another legal form, are names *)
(* of one entity, whose entity_type is "SA de CV"; every raw name that     *)
(* passes the floor and has a non-empty key is a name (canonical or        *)
(* alternate) of exactly one entity.                                       *)
(***************************************************************************)
C23_DedupGrouping ==
    "ECE" \in BuiltKinds =>
        /\ \A a, b \in FlooredCertifiers :
              (\E k \in 1..Len(ece_registry) : {a, b} \subseteq NamesIn(k))
                 <=> (KeyOf(a) = KeyOf(b) /\ KeyOf(a) # << >>)
        /\ \A a \in FlooredCertifiers :
              KeyOf(a) # << >> =>
                  Cardinality({k \in 1..Len(ece_registry) :
                                  a \in NamesIn(k)}) = 1
        /\ (/\ {InstitutoSAdeCV, instituto_abc} \subseteq FlooredCertifiers
            /\ \A n \in FlooredCertifiers :
                  KeyOf(n) = KeyOf(instituto_abc) =>
                      TypeOf(n) \in {"Unknown", "SA de CV"}) =>
              \E k \in 1..Len(ece_registry) :
                  /\ {InstitutoSAdeCV, instituto_abc} \subseteq NamesIn(k)
                  /\ ece_registry[k].entity_type = "SA de CV"

\* C23 witness: the registry was built from records that name
\* "instituto abc" first and "Instituto ABC S.A. de C.V." after it
C23_Witness ==
    /\ "ECE" \in BuiltKinds
    /\ ec_data[1].certifiers = <<instituto_abc, InstitutoSAdeCV>>
    /\ Len(ece_registry) = 1

\* EC001 with the certifiers "Instituto ABC S.A. de C.V." and
\* "INSTITUTO ABC", EC002 with "Instituto ABC S.A. de C.V.", no courses
ScenarioRecords ==
    [ec_code \in EcCodes |->
        [title |-> TitleOf(ec_code),
         certifiers |->
            IF ec_code = 1 THEN <<InstitutoSAdeCV, INSTITUTO_ABC>>
            ELSE IF ec_code = 2 THEN <<InstitutoSAdeCV>>
            ELSE << >>,
         courses |-> << >>]]

(***************************************************************************)
(* C24 - End-to-end scenario: from EC001 with the certifiers               *)
(* "Instituto ABC S.A. de C.V." and "INSTITUTO ABC" and EC002 with         *)
(* "Instituto ABC S.A. de C.V.", no courses, the certifier registry is one *)
(* entity with canonical_name "Instituto ABC S.A. de C.V.",                *)
(* alternate_names ["INSTITUTO ABC"], ec_count 2 and ec_codes              *)
(* [EC001, EC002]; the offering registry is empty; the matrix maps EC001   *)
(* and EC002 to the id of that entity and nothing else.                    *)
(***************************************************************************)
C24_EndToEnd ==
    (ec_data = ScenarioRecords /\ bpc \in {"matrix", "stats"}) =>
        /\ Len(ece_registry) = 1
        /\ ece_registry[1].canonical_name = InstitutoSAdeCV
        /\ ece_registry[1].alternate_names = <<INSTITUTO_ABC>>
        /\ ece_registry[1].ec_count = 2
        /\ ece_registry[1].ec_codes = <<1, 2>>
        /\ ccap_registry = << >>
        /\ matrix[1].ece_ids = <<ece_registry[1].id>>
        /\ matrix[2].ece_ids = <<ece_registry[1].id>>

\* C24 witness: the matrix was built from the records of the scenario
C24_Witness ==
    /\ ec_data = ScenarioRecords
    /\ bpc = "matrix"
    /\ matrix[1].ece_count = 1

(***************************************************************************)
(* C25 - Group classification: the entity_type of a certifier entity is    *)
(* the classification of the first raw variant of its group, in input      *)
(* order, whose classification is not "Unknown"; variants that come later  *)
(* do not change it; a group whose variants all classify as "Unknown" has  *)
(* entity_type "Unknown".                                                  *)
(***************************************************************************)
C25_GroupClassification ==
    "ECE" \in BuiltKinds =>
        \A k \in 1..Len(ece_registry) :
            LET known(n) == TypeOf(n) # "Unknown"
                classified ==
                    SelectSeq(Variants("ECE", ece_registry[k].normalized_key),
                              known)
            IN  ece_registry[k].entity_type =
                    IF classified = << >> THEN "Unknown"
                    ELSE TypeOf(classified[1])

\* C25 witness: a group met "Ab." (Unknown), then "ab SC", then "ab AC"
C25_Witness ==
    /\ "ECE" \in BuiltKinds
    /\ ec_data[1].certifiers =
          <<<<"A", "b", ".">>, <<"a", "b", " ", "S", "C">>,
            <<"a", "b", " ", "A", "C">>>>
    /\ ece_registry[1].entity_type = "SC"

\* the matrix has been built
MatrixBuilt == bpc \in {"matrix", "stats"}

\* the ids of the certifier registry
RegistryIds == {ece_registry[k].id : k \in 1..Len(ece_registry)}

(***************************************************************************)
(* C26 - Matrix consistency: in every entry of the matrix ece_count is the *)
(* number of ids in ece_ids, ece_ids holds no id twice, and every id in it *)
(* is the id of an entity of the certifier registry; every work item of    *)
(* the input has an entry.                                                 *)
(***************************************************************************)
C26_MatrixConsistency ==
    MatrixBuilt =>
        /\ DOMAIN matrix = DOMAIN ec_data
        /\ \A ec_code \in DOMAIN matrix :
              LET entry == matrix[ec_code]
              IN  /\ entry.ece_count = Len(entry.ece_ids)
                  /\ \A m, n \in 1..Len(entry.ece_ids) :
                        entry.ece_ids[m] = entry.ece_ids[n] => m = n
                  /\ SeqToSet(entry.ece_ids) \subseteq RegistryIds

\* C26 witness: a work item names three certifiers and its entry lists two ids
C26_Witness ==
    /\ MatrixBuilt
    /\ Len(ec_data[1].certifiers) = 3
    /\ matrix[1].ece_count = 2

\* the entities whose id the entry of ec_code lists
RelatedEntities(ec_code) ==
    {k \in 1..Len(ece_registry) :
        ece_registry[k].id \in SeqToSet(matrix[ec_code].ece_ids)}

(***************************************************************************)
(* C27 - Floor filtering: a certifier name of fewer than 3 characters, or  *)
(* a course name of fewer than 5, is no name of any registry entity,       *)
(* creates no group, and contributes no id to any matrix entry: every id   *)
(* an entry lists is the id of an entity whose key is the key of a name of *)
(* that work item that passes the floor, also when a longer name elsewhere *)
(* in the input has the key of the short name.                             *)
(***************************************************************************)
C27_FloorFiltering ==
    /\ \A kind \in BuiltKinds :
          \A k \in 1..Len(RegistryOf(kind)) :
              LET e == RegistryOf(kind)[k]
              IN  /\ \A n \in {e.canonical_name}
                                 \cup SeqToSet(e.alternate_names) :
                        Len(n) >= LengthFloor(kind)
                  /\ Variants(kind, e.normalized_key) # << >>
    /\ MatrixBuilt =>
          \A ec_code \in DOMAIN matrix :
              \A k \in RelatedEntities(ec_code) :
                  \E n \in SeqToSet(ec_data[ec_code].certifiers) :
                      /\ Len(n) >= CERT_NAME_FLOOR
                      /\ KeyOf(n) = ece_registry[k].normalized_key

\* the name is made of whitespace only
WhitespaceOnly(n) == n # << >> /\ SeqToSet(n) \subseteq Whitespace

(***************************************************************************)
(* C28 - Empty keys excluded: normalize_name maps the empty string and     *)
(* every whitespace-only name to the empty string; no entity of a registry *)
(* has an empty normalized_key; a raw name whose key is empty, such as the *)
(* bare legal suffix "S.C.", is no name of any entity and contributes no   *)
(* id to a matrix entry: every id an entry lists comes from a name of that *)
(* work item with a non-empty key.                                         *)
(***************************************************************************)
C28_EmptyKeysExcluded ==
    /\ normalize_name(<< >>) = << >>
    /\ \A kind \in {"ECE", "CCAP"} :
          \A n \in SeqToSet(InputNames(kind, NumEcs)) :
              WhitespaceOnly(n) => KeyOf(n) = << >>
    /\ \A kind \in BuiltKinds :
          /\ \A k \in 1..Len(RegistryOf(kind)) :
                RegistryOf(kind)[k].normalized_key # << >>
          /\ \A n \in SeqToSet(InputNames(kind, NumEcs)) :
                KeyOf(n) = << >> =>
                    \A k \in 1..Len(RegistryOf(kind)) :
                        /\ n # RegistryOf(kind)[k].canonical_name
                        /\ n \notin
                              SeqToSet(RegistryOf(kind)[k].alternate_names)
    /\ MatrixBuilt =>
          \A ec_code \in DOMAIN matrix :
              \A k \in RelatedEntities(ec_code) :
                  \E n \in SeqToSet(ec_data[ec_code].certifiers) :
                      /\ KeyOf(n) # << >>
                      /\ KeyOf(n) = ece_registry[k].normalized_key

\* C28 witness: a work item names "S.C.", "   " and "Ab."; its entry lists
\* one id
C28_Witness ==
    /\ MatrixBuilt
    /\ ec_data[1].certifiers =
          <<<<"S", ".", "C", ".">>, <<" ", " ", " ">>, <<"A", "b", ".">>>>
    /\ Len(ece_registry) = 1
    /\ matrix[1].ece_count = 1

(***************************************************************************)
(* C29 - Normalizer fixed point: normalize_name applied to the key it      *)
(* returned for a name returns that key, for every name made of a word,    *)
(* legal suffixes, spaces and separator punctuation, names with two legal  *)
(* suffixes in a row included.                                             *)
(***************************************************************************)
C29_FixedPoint == npc = "twice" => n_twice = n_once

(***************************************************************************)
(* C30 - Statistics: generate_stats reports unique_certifiers as the       *)
(* length of the certifier registry, max_ecs_per_certifier as the largest  *)
(* ec_count (0, and an average of 0, for an empty registry), the numbers   *)
(* of entities with ec_count 1, at least MANY_ECS and at least             *)
(* VERY_MANY_ECS, and as top list the first min(TOP_CERTIFIERS, n)         *)
(* entities in registry order, none of which has a smaller ec_count than   *)
(* an entity left out.                                                     *)
(***************************************************************************)
C30_Statistics ==
    bpc = "stats" =>
        LET n == Len(ece_registry)
            s == stats.ece_registry_stats
            top == stats.top_20_certifiers
            counts == {ece_registry[k].ec_count : k \in 1..n}
            having(cs) ==
                Cardinality({k \in 1..n : ece_registry[k].ec_count \in cs})
        IN  /\ s.unique_certifiers = n
            /\ n = 0 =>
                  /\ s.max_ecs_per_certifier = 0
                  /\ s.avg_ecs_per_certifier = 0
            /\ n > 0 =>
                  /\ \E k \in 1..n :
                        ece_registry[k].ec_count = s.max_ecs_per_certifier
                  /\ \A k \in 1..n :
                        ece_registry[k].ec_count <= s.max_ecs_per_certifier
            /\ s.certifiers_with_1_ec = having({1})
            /\ s.certifiers_with_5plus_ecs =
                  having({c \in counts : c >= MANY_ECS})
            /\ s.certifiers_with_10plus_ecs =
                  having({c \in counts : c >= VERY_MANY_ECS})
            /\ Len(top) = IF n < TOP_CERTIFIERS THEN n ELSE TOP_CERTIFIERS
            /\ \A k \in 1..Len(top) :
                  /\ top[k].name = ece_registry[k].canonical_name
                  /\ top[k].ec_count = ece_registry[k].ec_count
                  /\ \A j \in (Len(top) + 1)..n :
                        ece_registry[j].ec_count <= top[k].ec_count

\* C30 witness: the registry holds more entities than the top list takes,
\* one with MANY_ECS work items and one with a single work item
C30_Witness ==
    /\ bpc = "stats"
    /\ Len(ece_registry) > TOP_CERTIFIERS
    /\ stats.ece_registry_stats.certifiers_with_5plus_ecs = 1
    /\ stats.ece_registry_stats.certifiers_with_1_ec = 1

(***************************************************************************)
(* C31 - Status check builds only when extraction is complete: the status  *)
(* check reports EXTRACTION COMPLETE, and with --build runs the registry   *)
(* builder and the report generator, only when every work item of the      *)
(* universe has been processed: never when processed < total, never when   *)
(* the checkpoint is empty.                                                *)
(***************************************************************************)
C31_BuildsOnlyWhenComplete ==
    (status.report = "complete" \/ status.built) =>
        /\ status.processed >= status.total_ecs
        /\ status.processed > 0

(***************************************************************************)
(* C32 - Fresh isolated context per work item: every extraction of a work  *)
(* item runs in a page made for that item and used by no other work item,  *)
(* in the batch and in the Playwright edition: no page has been used by    *)
(* two work items.                                                         *)
(***************************************************************************)
C32_FreshPagePerItem ==
    \A page \in 1..Len(page_users) : Cardinality(page_users[page]) <= 1

(***************************************************************************)
(* C40 - Page lifecycle in the batch extractor: across the attempts of     *)
(* process_ec for a work item at most one page is open at any moment, the  *)
(* page of the call that is running; when process_ec has returned, with    *)
(* data or with None, no page it opened is open.                           *)
(***************************************************************************)
C40_PageLifecycle ==
    page_edition = "batch" =>
        /\ Cardinality(open_pages) <= 1
        /\ frames # << >> => open_pages \subseteq {TopPage}
        /\ frames = << >> => open_pages = {}

\* C40 witness: process_ec has returned for the first work item after two
\* failed attempts and a third attempt, each in a page of its own
C40_Witness ==
    /\ page_edition = "batch"
    /\ page_pc = "next"
    /\ page_item = 1
    /\ pages_made = BATCH_RETRY_LIMIT + 1


(***************************************************************************)
(* C33 - Registry entity invariants: for every entity of the certifier     *)
(* registry and of the offering registry, ec_count is the number of        *)
(* distinct work items in ec_codes and is at least 1, canonical_name is    *)
(* not one of alternate_names, and alternate_names together with           *)
(* canonical_name is exactly the set of raw names of the input that pass   *)
(* the length floor and have the entity's normalized_key.                  *)
(***************************************************************************)
C33_EntityInvariants ==
    \A kind \in BuiltKinds :
        \A k \in 1..Len(RegistryOf(kind)) :
            LET e == RegistryOf(kind)[k]
            IN  /\ e.ec_count = Cardinality(SeqToSet(e.ec_codes))
                /\ e.ec_count = Len(e.ec_codes)
                /\ e.ec_count >= 1
                /\ e.canonical_name \notin SeqToSet(e.alternate_names)
                /\ {e.canonical_name} \cup SeqToSet(e.alternate_names)
                      = SeqToSet(Variants(kind, e.normalized_key))

\* C33 witness: both registries are built; an offering entity has an
\* alternate name and two work items, and the certifier registry is not
\* empty
C33_Witness ==
    /\ bpc = "ccap"
    /\ \E k \in 1..Len(ccap_registry) :
          /\ ccap_registry[k].alternate_names # << >>
          /\ ccap_registry[k].ec_count = 2
    /\ ece_registry # << >>


(***************************************************************************)
(* C34 - Matrix and registry describe the same relation: for every work    *)
(* item c and every entity E of the certifier registry, the id of E is in  *)
(* the matrix entry of c exactly when c is in the ec_codes of E; hence the *)
(* sum of ece_count over the matrix is the sum of ec_count over the        *)
(* registry.                                                               *)
(***************************************************************************)
C34_SameRelation ==
    MatrixBuilt =>
        /\ \A ec_code \in DOMAIN matrix :
              \A k \in 1..Len(ece_registry) :
                  ece_registry[k].id \in SeqToSet(matrix[ec_code].ece_ids)
                      <=> ec_code \in SeqToSet(ece_registry[k].ec_codes)
        /\ SumOf([ec_code \in DOMAIN matrix |-> matrix[ec_code].ece_count],
                 Len(matrix))
              = SumOf([k \in 1..Len(ece_registry) |->
                          ece_registry[k].ec_count], Len(ece_registry))


(***************************************************************************)
(* C35 - At most one extraction per item per run: within one run of the    *)
(* API coordinator process_ec is called at most once for every work item   *)
(* of remaining, the items of the start-up test included, and every        *)
(* outcome is recorded at most once.                                       *)
(***************************************************************************)
C35_OneExtractionPerRun ==
    edition = "api" =>
        /\ \A c \in Codes : calls[c] <= 1
        /\ \A m, n \in 1..Len(completed) : completed[m] = completed[n] => m = n


\* the list holds no work item twice
NoRepeats(list) ==
    \A m, n \in 1..Len(list) : list[m] = list[n] => m = n

(***************************************************************************)
(* C37 - processed and failed behave as sets: in every persisted           *)
(* checkpoint of the batch coordinator, after any number of runs over the  *)
(* same universe, neither the processed list nor the failed list holds a   *)
(* work item more than once.                                               *)
(***************************************************************************)
C37_ListsAreSets ==
    (edition = "batch" /\ IsCheckpoint(disk)) =>
        /\ NoRepeats(disk.processed)
        /\ NoRepeats(disk.failed)


\* processed and data of the checkpoint name the same work items
InStep(cp) ==
    /\ SeqToSet(cp.processed) = DOMAIN cp.data
    /\ \A c \in SeqToSet(cp.failed) \ SeqToSet(cp.processed) :
          c \notin DOMAIN cp.data

(***************************************************************************)
(* C38 - processed and data stay in step: in the checkpoint main holds     *)
(* between two completions and in every persisted checkpoint of the batch  *)
(* and of the API coordinator, the work items of processed are the keys of *)
(* data, and no work item of failed that is not in processed has a record  *)
(* in data.                                                                *)
(***************************************************************************)
C38_ProcessedAndData ==
    edition \in {"batch", "api"} =>
        /\ InStep(checkpoint)
        /\ IsCheckpoint(disk) => InStep(disk)

\* C38 witness: the API coordinator holds a checkpoint with a record and a
\* failure more than the persisted one, which has a record too
C38_Witness ==
    /\ edition = "api"
    /\ IsCheckpoint(disk)
    /\ disk.processed # << >>
    /\ Len(checkpoint.processed) > Len(disk.processed)
    /\ SeqToSet(checkpoint.failed) \ SeqToSet(checkpoint.processed) # {}


\* the certifier registries the builder can return for the records of the
\* first ec work items alone
EarlierRegistries(ec) == build_ece_registry(SubSeq(ec_data, 1, ec))

(***************************************************************************)
(* C39 - Registry growth is monotone in the key: when the builder is run   *)
(* again after records of further work items were added to the input, the  *)
(* earlier records unchanged, every normalized_key of the earlier          *)
(* certifier registry is in the later registry, with an ec_codes that      *)
(* includes the earlier one and an ec_count that is not smaller; the id    *)
(* of the key is free to change.                                           *)
(***************************************************************************)
C39_MonotoneGrowth ==
    bpc = "ece" =>
        \A ec \in 0..(NumEcs - 1) :
            \A earlier \in EarlierRegistries(ec) :
                \A m \in 1..Len(earlier) :
                    \E n \in 1..Len(ece_registry) :
                        /\ ece_registry[n].normalized_key
                              = earlier[m].normalized_key
                        /\ SeqToSet(earlier[m].ec_codes)
                              \subseteq SeqToSet(ece_registry[n].ec_codes)
                        /\ ece_registry[n].ec_count >= earlier[m].ec_count

\* C39 witness: an entity of the registry of the first work item alone has,
\* in the registry of all work items, more work items and another id
C39_Witness ==
    /\ bpc = "ece"
    /\ \E earlier \in EarlierRegistries(1) :
          \E m \in 1..Len(earlier), n \in 1..Len(ece_registry) :
              /\ ece_registry[n].normalized_key = earlier[m].normalized_key
              /\ ece_registry[n].ec_count > earlier[m].ec_count
              /\ ece_registry[n].id # earlier[m].id


(***************************************************************************)
(* C36 - Committee resume writes no duplicates: after any runs and crashes *)
(* of extract_committees_resume, a crash inside save_progress between the  *)
(* two files included, the committees file holds every committee id at     *)
(* most once, and every committee in it has an id that is at most the      *)
(* last_id of the progress file (0 while there is no progress file),       *)
(* whenever the script is not running and both files can be read.          *)
(***************************************************************************)
C36_NoDuplicateCommittees ==
    (/\ kpc \in {"done", "crashed", "error"}
     /\ IsCheckpoint(committees_file)
     /\ progress_file # Truncated) =>
        /\ NoRepeats(committees_file.list)
        /\ \A id \in SeqToSet(committees_file.list) :
              id <= (IF progress_file = NoFile THEN 0
                     ELSE progress_file.last_id)

====
